---- MODULE Spec2Model ----
(***************************************************************************)
(* OSM batch admin-boundaries downloader.                                  *)
(*                                                                         *)
(* The model follows one job record of the Job Manager (services/jobs.py): *)
(* its bounded event queue with coalescing and backpressure, the worker    *)
(* coroutine JobManager._run, cancel requests, the event streams of        *)
(* main.py (api_events.gen) and the Downloader run                         *)
(* (services/downloader.py, services/land_polygons.py) that the worker     *)
(* starts on a thread.                                                     *)
(***************************************************************************)
EXTENDS Integers, Sequences, FiniteSets, TLC

VARIABLES
    job,       \* the Job record (jobs.py:26-40)
    run_pc,    \* position of the coroutine JobManager._run
    dl,        \* the worker thread: the call of download_admin_boundaries
    stream,    \* the event streams opened on the job (api_events.gen)
    land_zip,  \* whether the land-polygon dataset file is on disk
    calls,     \* the Job method each thread is inside, statement by statement
    obs,       \* history: what the worker (_run and the Downloader) has emitted
    cancels,   \* history: number of cancel requests served
    disk,      \* one scope directory: the object files and the manifest
    run,       \* a Downloader run, as the scope directory sees it
    latest,    \* history: per relation, the outcome of its latest clip
    cache,     \* _land_union_cache: its keys, least recently used first
    thr,       \* the threads inside load_land_union_for_bbox
    since,     \* history: the lookups since one key was inserted or hit
    fs,        \* one file of the scope and the temporary file beside it
    wr,        \* the threads inside _atomic_write_text for that file
    seen,      \* history: what the last read of the file returned
    registry,  \* JobManager._jobs, the clock, and the registry before the last call
    pv,        \* a preview request: the call of preview_features
    cat,       \* the catalog: a cache file, the country items file, the last call
    ovp,       \* a call of post_overpass
    sse,       \* a job under any sequence of emits, and the streams reading it
    land,      \* _land_geometry_store and the threads inside its getter
    geo,       \* a call of build_relation_geometry or _unwrap_way_longitudes
    tier,      \* one relation of a Downloader run: its caches, its geometry source
    tile,      \* the land union cache by its tile keys, and the requests made
    scope      \* the manifest of one scope and the two jobs that run on it

\* the job and its worker
jobVars == <<job, run_pc, dl, stream, land_zip, calls, obs, cancels>>

\* the scope directory and the runs over it
storeVars == <<disk, run, latest>>

\* the land-union cache and its callers
cacheVars == <<cache, thr, since>>

\* one file written with _atomic_write_text, its writers and its reader
fileVars == <<fs, wr, seen>>

\* the registry of jobs, a preview request, the catalog, an Overpass call,
\* the event streams of a job, the land store
svcVars == <<registry, pv, cat, ovp, sse, land>>

\* the calls of the pure functions
fnVars == <<geo, tier, tile, scope>>

lib == <<storeVars, cacheVars, fileVars, svcVars, fnVars>>

\* what a run over the scope directory leaves alone
exceptStore == <<jobVars, cacheVars, fileVars, svcVars, fnVars>>

\* what a call of load_land_union_for_bbox leaves alone
exceptCache == <<jobVars, storeVars, fileVars, svcVars, fnVars>>

\* what a write or a read of the file leaves alone
exceptFile == <<jobVars, storeVars, cacheVars, svcVars, fnVars>>

\* what the services leave alone together
noSvc == <<jobVars, storeVars, cacheVars, fileVars, fnVars>>

\* what a call on the registry leaves alone
exceptRegistry == <<noSvc, pv, cat, ovp, sse, land>>

\* what a preview request leaves alone
exceptPreview == <<noSvc, registry, cat, ovp, sse, land>>

\* what a catalog read leaves alone
exceptCatalog == <<noSvc, registry, pv, ovp, sse, land>>

\* what a call of post_overpass leaves alone
exceptOverpass == <<noSvc, registry, pv, cat, sse, land>>

\* what an emit or a delivery on the job under test leaves alone
exceptSse == <<noSvc, registry, pv, cat, ovp, land>>

\* what a call of _get_land_geometry_store leaves alone
exceptLand == <<noSvc, registry, pv, cat, ovp, sse>>

\* what a call of the geometry builder leaves alone
exceptGeo == <<jobVars, storeVars, cacheVars, fileVars, svcVars, tier, tile, scope>>

\* what the cache cascade of one relation leaves alone
exceptTier == <<jobVars, storeVars, cacheVars, fileVars, svcVars, geo, tile, scope>>

\* what a request for a land union leaves alone
exceptTile == <<jobVars, storeVars, cacheVars, fileVars, svcVars, geo, tier, scope>>

\* what the jobs of one scope leave alone
exceptScope == <<jobVars, storeVars, cacheVars, fileVars, svcVars, geo, tier, tile>>

vars == <<jobVars, lib>>

(***************************************************************************)
(* Bounds                                                                  *)
(***************************************************************************)
\* the emit calls made on the job under test
MaxEmits == 5
\* the calls of _get_land_geometry_store one thread makes
MaxLandCalls == 2

\* requests for a land union in a behaviour
MaxTileCalls == 2

\* relation ids of the scope the two jobs run on
ScopeRelations == 2

\* _BBOX_TILE_DEG, in degrees
BBOX_TILE_DEG == 5
\* maxsize of Job.queue; 1024 in jobs.py:19, scaled so that overflow happens
SSE_QUEUE_MAX == 2
\* cancel requests served on the job
MaxCancels == 1
\* the most relation ids a job selects
MaxRelations == 2
\* the configured land-polygon URLs (settings.osm_land_polygons_urls)
NumUrls == 2
\* the most chunks one land-polygon response streams
MaxChunks == 2
\* the most relation ids of a run over the scope directory
StoreRelations == 2
\* capacity of the land-union cache; 96 in land_polygons.py:24, scaled so
\* that eviction happens
LAND_UNION_CACHE_MAX == 2
\* the distinct cache keys (bbox tiles) looked up
NumKeys == 4
\* the write calls one text takes
TextChunks == 2
\* grace period of a finished job; 600 s in jobs.py:17, scaled to clock ticks
FINISHED_JOB_GRACE_SEC == 1
\* the most finished jobs kept; 50 in jobs.py:18, scaled so that the cap evicts
MAX_FINISHED_JOBS == 1
\* the most jobs created
MaxJobs == 4
\* the last clock tick
MaxTime == 3
\* the most selected relation ids of a job; 5000 in main.py:195, scaled
MAX_SELECTED_IDS == 2
\* the relation ids a preview request may name
PreviewIds == 3
\* the most entries of relation_ids in a preview request
MaxRequest == 3
\* TTL of the ids and items caches (24 h, catalog.py:14-15) and of the search
\* cache (6 h, catalog.py:16), scaled to clock ticks
IDS_CACHE_TTL_SEC == 2
ITEMS_CACHE_TTL_SEC == 2
SEARCH_CACHE_TTL_SEC == 1
\* the last clock tick of the catalog
CatalogMaxTime == 4
\* chunk_size of preview_features; 25 in preview.py:227, scaled so that a
\* request has several chunks
PREVIEW_CHUNK_SIZE == 2

\* the streams a client may open on the job
Streams == {"s1", "s2"}

\* the threads of one process that write the same file (two jobs over one
\* scope, or a job and a scoped preview)
FileWriters == {"w1", "w2"}

\* the threads that call load_land_union_for_bbox (one per running job)
CacheThreads == {"t1", "t2"}

(***************************************************************************)
(* Program constants                                                       *)
(***************************************************************************)
COALESCE_EVENT_TYPES ==
    {"overall_progress", "land_polygons_download_progress", "clip_cache_stats"}

TERMINAL_STATUSES == {"done", "error", "cancelled"}

\* the keyword parameters of download_admin_boundaries, and those of them
\* that have no default
DownloaderParams ==
    {"adm_name", "admin_level", "relation_ids", "relation_names", "clip_land",
     "force_refresh_osm_source", "overpass_url", "emit", "should_cancel"}

DownloaderRequired ==
    {"adm_name", "admin_level", "relation_ids", "clip_land", "overpass_url", "emit"}

\* the keyword arguments JobManager._run passes to download_admin_boundaries
WorkerKwargs ==
    {"adm_name", "admin_level", "relation_ids", "relation_names", "clip_land",
     "force_refresh_osm_source", "fix_antimeridian", "overpass_url", "emit",
     "should_cancel"}

(***************************************************************************)
(* Events                                                                  *)
(***************************************************************************)
JobEvent(type, data) == [type |-> type, data |-> data]

NoData == <<>>

(***************************************************************************)
(* Job: the queue operations, each run to completion by its caller         *)
(***************************************************************************)
QueueFull(q) == Len(q) >= SSE_QUEUE_MAX

\* pending_coalesced is a dict keyed by event type, kept in insertion order:
\* a sequence of events with at most one event per type
PendingTypes(p) == [i \in 1..Len(p) |-> p[i].type]

PendingHas(p, t) == \E i \in 1..Len(p) : p[i].type = t

PendingGet(p, t) == p[CHOOSE i \in 1..Len(p) : p[i].type = t]

\* pending_coalesced[ev.type] = ev
PendingSet(p, ev) ==
    IF PendingHas(p, ev.type)
    THEN [i \in 1..Len(p) |-> IF p[i].type = ev.type THEN ev ELSE p[i]]
    ELSE Append(p, ev)

\* pending_coalesced.pop(t, None)
PendingPop(p, t) == SelectSeq(p, LAMBDA e : e.type # t)

\* a variant of _enqueue_with_backpressure that rejects the new event when the
\* queue is full instead of making room for it
EnqueueRejectsWhenFull(j, ev) ==
    IF ~QueueFull(j.queue)
    THEN [job |-> [j EXCEPT !.queue = Append(@, ev)], ok |-> TRUE]
    ELSE [job |-> [j EXCEPT !.dropped_events = @ + 1], ok |-> FALSE]

\* Job._enqueue_with_backpressure: the job after the call and the value returned
EnqueueWithBackpressure(j, ev) ==
    IF ~QueueFull(j.queue)
    THEN [job |-> [j EXCEPT !.queue = Append(@, ev)], ok |-> TRUE]
    ELSE LET j1 == IF j.queue # <<>>
                   THEN [j EXCEPT
                           !.queue = Tail(@),
                           !.dropped_events = @ + 1,
                           !.queued_coalesced_types = @ \ {Head(j.queue).type}]
                   ELSE j
         IN  IF ~QueueFull(j1.queue)
             THEN [job |-> [j1 EXCEPT !.queue = Append(@, ev)], ok |-> TRUE]
             ELSE [job |-> [j1 EXCEPT !.dropped_events = @ + 1], ok |-> FALSE]

\* Job.emit
JobEmit(j, ev) ==
    LET j0 == IF ev.type = "overall_progress"
              THEN [j EXCEPT !.progress = ev.data]
              ELSE j
    IN  IF ev.type \in COALESCE_EVENT_TYPES
        THEN IF ev.type \in j0.queued_coalesced_types
             THEN [j0 EXCEPT !.pending_coalesced = PendingSet(@, ev)]
             ELSE LET r == EnqueueWithBackpressure(j0, ev)
                  IN  IF r.ok
                      THEN [r.job EXCEPT !.queued_coalesced_types = @ \cup {ev.type}]
                      ELSE [r.job EXCEPT !.pending_coalesced = PendingSet(@, ev)]
        ELSE EnqueueWithBackpressure(j0, ev).job

\* the loop of Job.flush_coalesced_events over list(pending_coalesced.keys())
RECURSIVE FlushLoop(_, _)
FlushLoop(j, types) ==
    IF types = <<>>
    THEN j
    ELSE LET t == Head(types)
         IN  IF t \in j.queued_coalesced_types \/ ~PendingHas(j.pending_coalesced, t)
             THEN FlushLoop(j, Tail(types))
             ELSE LET r == EnqueueWithBackpressure(j, PendingGet(j.pending_coalesced, t))
                  IN  IF ~r.ok
                      THEN r.job
                      ELSE FlushLoop(
                               [r.job EXCEPT
                                  !.queued_coalesced_types = @ \cup {t},
                                  !.pending_coalesced = PendingPop(@, t)],
                               Tail(types))

\* Job.flush_coalesced_events
FlushCoalescedEvents(j) == FlushLoop(j, PendingTypes(j.pending_coalesced))

\* Job.on_event_delivered
OnEventDelivered(j, ev) ==
    IF ev.type \in COALESCE_EVENT_TYPES
    THEN FlushCoalescedEvents(
             [j EXCEPT !.queued_coalesced_types = @ \ {ev.type}])
    ELSE j

(***************************************************************************)
(* History.  Of the worker's emit calls (_run and the Downloader), in call *)
(* order:                                                                  *)
(*   last            the last event emitted                                *)
(*   finished        the number of job_finished events emitted             *)
(*   after           the number of events emitted after a job_finished     *)
(*   done_cancelled  whether done{cancelled:true} was emitted              *)
(*   started         whether an object_started was emitted                 *)
(*   done            whether a done event was emitted                      *)
(*   error           the message of the error event emitted, "" if none    *)
(* and of the cancel requests:                                             *)
(*   cancel_in_run   whether one was served before the Downloader call     *)
(*                   had returned or raised                                *)
(*   cancel_at       the index of the relation whose loop iteration was    *)
(*                   under way (its cancel check passed, its               *)
(*                   overall_progress not yet emitted) when the first      *)
(*                   was served, 0 if none was                             *)
(***************************************************************************)
NoEvent == JobEvent("none", NoData)

NoHistory ==
    [last |-> NoEvent,
     finished |-> 0, after |-> 0,
     done_cancelled |-> FALSE, cancel_in_run |-> FALSE, cancel_at |-> 0,
     started |-> FALSE, done |-> FALSE, error |-> ""]

IsDoneCancelled(ev) ==
    ev.type = "done" /\ "cancelled" \in DOMAIN ev.data /\ ev.data.cancelled

Observe(o, ev) ==
    [o EXCEPT
       !.last     = ev,
       !.finished = @ + (IF ev.type = "job_finished" THEN 1 ELSE 0),
       !.after    = @ + (IF o.finished > 0 THEN 1 ELSE 0),
       !.done_cancelled = @ \/ IsDoneCancelled(ev),
       !.started  = @ \/ ev.type = "object_started",
       !.done     = @ \/ ev.type = "done",
       !.error    = IF ev.type = "error" THEN ev.data.message ELSE @]

\* a cancel request is served
ObserveCancel(o, d) ==
    [o EXCEPT !.cancel_in_run = @ \/ d.pc \notin {"returned", "raised"},
              !.cancel_at = IF cancels > 0 THEN @
                            ELSE IF d.pc \in {"loop", "returned", "raised"} THEN 0
                            ELSE d.idx]

RECURSIVE ObserveAll(_, _)
ObserveAll(o, evs) ==
    IF evs = <<>> THEN o ELSE ObserveAll(Observe(o, Head(evs)), Tail(evs))

(***************************************************************************)
(* Initial state: create_job has registered the job and scheduled _run     *)
(***************************************************************************)
\* the params of POST /api/jobs; relation_ids is the number of selected ids,
\* the i-th of which is relation i
JobParams ==
    [clip_land : BOOLEAN,
     force_refresh_osm_source : BOOLEAN,
     relation_ids : 1..MaxRelations]

NewJob(params) ==
    [params                 |-> params,
     status                 |-> "queued",
     progress               |-> NoData,
     error                  |-> "",
     cancelled              |-> FALSE,
     finished               |-> FALSE,
     queue                  |-> <<>>,
     pending_coalesced      |-> <<>>,
     queued_coalesced_types |-> {},
     dropped_events         |-> 0]

IdleThread ==
    [pc |-> "idle", exc |-> "",
     url |-> 0, chunks |-> 0, last_error |-> "",
     idx |-> 0, ok |-> 0, failed |-> 0,
     osm_reused_from_cache |-> FALSE,
     clip_cache_hits |-> 0, clip_cache_misses |-> 0]

\* a thread's call of a Job method: where it stands (pc), the event it emits
\* or enqueues (ev), the caller of _enqueue_with_backpressure (ret) and what it
\* returned (ok), the event get_nowait removed (dropped), the keys the flush
\* loop has still to visit (keys)
NoCall ==
    [pc |-> "idle", ev |-> NoEvent, ret |-> "", ok |-> FALSE,
     dropped |-> NoEvent, keys |-> <<>>]

\* then: what the event loop does when the call it is inside returns;
\* got: the event queue.get() handed to the stream
NoCalls ==
    [worker |-> NoCall, loop |-> NoCall, then |-> "", got |-> NoEvent]

\* an empty scope directory: no object file, no manifest
EmptyDisk == [osm |-> {}, land |-> {}, manifest |-> {}]

\* tags of a relation: none that names it, or one name under the key name or
\* name:en; the name is the text "R<n>"
NoTags == [key |-> "none", n |-> 0]

\* no Downloader call is running over the scope
IdleRun ==
    [pc |-> "idle", n |-> 0, clip_land |-> FALSE, force |-> FALSE, idx |-> 0,
     objects |-> {}, reported |-> {}, reused |-> FALSE, tags |-> NoTags]

\* no relation has been clipped yet
NoClips == [rid \in 1..StoreRelations |-> "none"]

\* no thread is inside load_land_union_for_bbox
IdleCall == [pc |-> "idle", key |-> 0, exc |-> ""]

\* the key followed has not been looked up
NoLookups == [key |-> 1, tracked |-> FALSE, keys |-> {}, looked |-> -1, hit |-> FALSE]

StoreAtRest ==
    /\ disk = EmptyDisk
    /\ run = IdleRun
    /\ latest = NoClips

CacheAtRest ==
    /\ cache = <<>>
    /\ thr = [t \in CacheThreads |-> IdleCall]
    /\ since = NoLookups

\* the text a writer writes, in chunks: each chunk names its writer
Text(w) == [i \in 1..TextChunks |-> w]

\* no file
Absent == <<"absent">>

\* the thread is not inside _atomic_write_text
IdleWriter == [pc |-> "idle", at |-> "", offset |-> 0]

\* the file holds the text of an earlier write, no temporary file is left
FileAtRest ==
    /\ fs = [path |-> Text("w0"), tmp |-> Absent]
    /\ wr = [w \in FileWriters |-> IdleWriter]
    /\ seen = Text("w0")

\* JobManager.__init__: no job; time.time() is positive
RegistryAtRest ==
    registry = [jobs |-> {}, now |-> 1, created |-> 0, op |-> "", before |-> {}]

\* no preview request is being served
IdlePreview ==
    [pc |-> "idle", exc |-> "", fix |-> TRUE, ids |-> <<>>, missing_ids |-> <<>>,
     feats |-> <<>>, i |-> 0, sub |-> 0, k |-> 0, elements |-> {},
     fetched |-> {}, single_ok |-> {}, single_failed |-> {}, builds |-> {},
     fixes |-> {}]

\* no catalog function has been called
NoRead == [fn |-> "", age |-> -1, outcome |-> "", queries |-> 0, failed |-> FALSE,
           cached |-> 0, result |-> 0]

\* the catalog cache is empty; the function followed is list_relation_ids
CatalogAtRest ==
    cat = [fn |-> "list_relation_ids", arg |-> FALSE, now |-> 1,
           file |-> [f \in {"own", "items_world"} |-> 0], last |-> NoRead]

\* no URL: None or ""
NoUrl == [host |-> "", path |-> <<>>, slash |-> FALSE]

\* post_overpass has not been called
IdleOverpass ==
    [pc |-> "idle", preferred_url |-> NoUrl, overpass_url |-> NoUrl, urls |-> <<>>,
     contacted |-> <<>>, answers |-> <<>>, last_error |-> "None",
     used_url |-> NoUrl, payload |-> NoUrl, exc |-> ""]

\* the job under test is new, nothing was emitted, the thread and the event
\* loop are inside no call, the stream is at the top of its loop
IdleSse ==
    [job     |-> NewJob([clip_land |-> FALSE, force_refresh_osm_source |-> FALSE,
                         relation_ids |-> 1]),
     emitted |-> <<>>,
     sent    |-> <<>>,
     snapshot |-> 0,
     worker  |-> NoCall,
     loop    |-> NoCall,
     then    |-> "",
     got     |-> NoEvent,
     stream  |-> "top"]

\* the worker threads that clip against the land dataset
LandThreads == {"t1", "t2"}

\* _land_geometry_store is None (0), the shapefile was never read, no thread
\* is inside the getter; the shapefile holds polygons
LandAtRest ==
    [store |-> 0, reads |-> 0, got |-> {}, empty |-> FALSE,
     thr   |-> [t \in LandThreads |-> [pc |-> "idle", land |-> 0, calls |-> 0]]]

SvcAtRest ==
    /\ RegistryAtRest
    /\ pv = IdlePreview
    /\ CatalogAtRest
    /\ ovp = IdleOverpass
    /\ sse = IdleSse
    /\ land = LandAtRest

\* no geometry was built
IdleGeo == [op |-> "", ways |-> <<>>, fix_antimeridian |-> TRUE,
            use_antimeridian_fix |-> FALSE, out |-> <<>>]

\* no object file
NoFile == [name |-> [slug |-> [text |-> "", n |-> 0], iso2 |-> "", rid |-> 0],
           tags |-> NoTags]

\* the loop body of relation 1 is entered with both caches empty
IdleTier ==
    [pc |-> "source", rid |-> 1, force_refresh_osm_source |-> FALSE, tags |-> NoTags,
     osm_cached |-> "none", cached |-> "none", source |-> "", phases |-> <<>>,
     queries |-> 0, write_tags |-> NoTags, written |-> NoFile]

\* _land_union_cache is empty, no request was made
IdleTile == [cache |-> {}, requests |-> <<>>]

\* the jobs that run on the scope
ScopeJobs == {"j1", "j2"}

\* the manifest lists no object, no job was created
IdleScope ==
    [manifest |-> {},
     job |-> [j \in ScopeJobs |->
                [status |-> "none", pc |-> "", relation_ids |-> {}, idx |-> 0,
                 objects |-> {}, ok |-> {}]]]

FnAtRest == geo = IdleGeo /\ tier = IdleTier /\ tile = IdleTile /\ scope = IdleScope

LibAtRest == StoreAtRest /\ CacheAtRest /\ FileAtRest /\ SvcAtRest /\ FnAtRest

\* a job that is created and never started
JobAtRest ==
    /\ job = NewJob([clip_land |-> FALSE, force_refresh_osm_source |-> FALSE,
                     relation_ids |-> 1])
    /\ land_zip = FALSE
    /\ run_pc = "created"
    /\ dl = IdleThread
    /\ stream = [s \in Streams |-> [pc |-> "none"]]
    /\ calls = NoCalls
    /\ obs = NoHistory
    /\ cancels = 0

Init ==
    /\ job \in {NewJob(p) : p \in JobParams}
    /\ land_zip \in BOOLEAN
    /\ run_pc = "created"
    /\ dl = IdleThread
    /\ stream = [s \in Streams |-> [pc |-> "none"]]
    /\ calls = NoCalls
    /\ obs = NoHistory
    /\ cancels = 0
    /\ LibAtRest

(***************************************************************************)
(* JobManager._run up to the await: status running, job_started, the       *)
(* thread is handed the call                                               *)
(***************************************************************************)
RunStart ==
    /\ run_pc = "created"
    /\ LET ev == JobEvent("job_started", [job_id |-> "job"])
       IN  /\ job' = JobEmit([job EXCEPT !.status = "running"], ev)
           /\ obs' = Observe(obs, ev)
    /\ run_pc' = "awaiting"
    /\ dl' = [dl EXCEPT !.pc = "call"]
    /\ UNCHANGED <<stream, land_zip, lib, calls, cancels>>

\* a call with keyword arguments kw binds iff every keyword is a parameter
\* and every parameter without a default is given
Binds(kw) == kw \subseteq DownloaderParams /\ DownloaderRequired \subseteq kw

\* the thread makes the call: it enters the function or raises TypeError
Call(kw) ==
    /\ dl.pc = "call"
    /\ dl' = IF Binds(kw)
             THEN [dl EXCEPT !.pc = "prelude"]
             ELSE [dl EXCEPT !.pc = "raised", !.exc = "TypeError"]
    /\ UNCHANGED <<job, run_pc, stream, land_zip, lib, calls, obs, cancels>>

\* asyncio.to_thread(download_admin_boundaries, ...) of JobManager._run
ThreadCall == Call(WorkerKwargs)

(***************************************************************************)
(* JobManager._run after the await: the outcome, then the finally block.   *)
(* No await stands between these statements.                               *)
(***************************************************************************)
\* the outcome of the await: except Exception sets error and emits it, else
\* the status becomes done unless the emit wrapper has set cancelled
\* a variant of the error event whose message does not carry the exception
ErrorEventOpaque(d) == JobEvent("error", [message |-> "Download failed"])

ErrorEvent(d) == JobEvent("error", [message |-> d.exc])

RunOutcome(j, d) ==
    IF d.pc = "raised"
    THEN JobEmit([j EXCEPT !.status = "error", !.error = d.exc], ErrorEvent(d))
    ELSE IF j.status \notin {"cancelled"}
         THEN [j EXCEPT !.status = "done"]
         ELSE j

\* finally: finished_at, and the summary log if events were dropped
DroppedLog(j) ==
    JobEvent("log", [message |-> "SSE backpressure", dropped |-> j.dropped_events])

RunFinally(j) ==
    IF j.dropped_events # 0
    THEN JobEmit([j EXCEPT !.finished = TRUE], DroppedLog(j))
    ELSE [j EXCEPT !.finished = TRUE]

JobFinished(j) == JobEvent("job_finished", [job_id |-> "job", status |-> j.status])

\* each block works on the job the block before it has left
RunFinish ==
    /\ run_pc = "awaiting"
    /\ dl.pc \in {"returned", "raised"}
    /\ \E j1 \in {RunOutcome(job, dl)} :
       \E j2 \in {RunFinally(j1)} :
       \E j3 \in {FlushCoalescedEvents(j2)} :
           /\ job' = JobEmit(j3, JobFinished(j3))
           /\ obs' = ObserveAll(obs,
                                 (IF dl.pc = "raised" THEN <<ErrorEvent(dl)>> ELSE <<>>)
                                 \o (IF j1.dropped_events # 0
                                     THEN <<DroppedLog(j1)>> ELSE <<>>)
                                 \o <<JobFinished(j3)>>)
    /\ run_pc' = "finished"
    /\ UNCHANGED <<dl, stream, land_zip, lib, calls, cancels>>

(***************************************************************************)
(* JobManager.cancel                                                       *)
(***************************************************************************)
Cancel ==
    /\ cancels < MaxCancels
    /\ LET ev == JobEvent("log", [message |-> "Cancel requested"])
       IN  job' = JobEmit([job EXCEPT !.cancelled = TRUE], ev)
    /\ obs' = ObserveCancel(obs, dl)
    /\ cancels' = cancels + 1
    /\ UNCHANGED <<run_pc, dl, stream, land_zip, lib, calls>>

(***************************************************************************)
(* api_events.gen: one event stream                                        *)
(***************************************************************************)
\* GET /api/jobs/{id}/events: the generator starts and yields hello
OpenStream(s) ==
    /\ stream[s].pc = "none"
    /\ stream' = [stream EXCEPT ![s].pc = "top"]
    /\ UNCHANGED <<job, run_pc, dl, land_zip, lib, calls, obs, cancels>>

\* queue.get() returns ev: on_event_delivered(ev), yield, break on job_finished
Deliver(s, j) ==
    LET ev == Head(j.queue)
    IN  /\ job' = OnEventDelivered([j EXCEPT !.queue = Tail(@)], ev)
        /\ stream' = [stream EXCEPT
                        ![s].pc = IF ev.type = "job_finished" THEN "closed" ELSE "top"]

\* top of the loop: flush, then queue.get() returns at once or suspends
StreamIter(s) ==
    /\ stream[s].pc = "top"
    /\ LET j == FlushCoalescedEvents(job)
       IN  IF j.queue # <<>>
           THEN Deliver(s, j)
           ELSE /\ job' = j
                /\ stream' = [stream EXCEPT ![s].pc = "waiting"]
    /\ UNCHANGED <<run_pc, dl, land_zip, lib, calls, obs, cancels>>

\* the suspended queue.get() is woken by an event
StreamWake(s) ==
    /\ stream[s].pc = "waiting"
    /\ job.queue # <<>>
    /\ Deliver(s, job)
    /\ UNCHANGED <<run_pc, dl, land_zip, lib, calls, obs, cancels>>

\* no event within 15 s: flush, yield ping
StreamTimeout(s) ==
    /\ stream[s].pc = "waiting"
    /\ job.queue = <<>>
    /\ job' = FlushCoalescedEvents(job)
    /\ stream' = [stream EXCEPT ![s].pc = "top"]
    /\ UNCHANGED <<run_pc, dl, land_zip, lib, calls, obs, cancels>>

StreamStep ==
    \E s \in Streams :
        \/ OpenStream(s)
        \/ StreamIter(s)
        \/ StreamWake(s)
        \/ StreamTimeout(s)

(***************************************************************************)
(* download_admin_boundaries on the worker thread.  Every emit is one      *)
(* step; what the run reads from disk, the network and the caches is       *)
(* chosen by the environment at the step that reads it.                    *)
(***************************************************************************)
total == job.params.relation_ids

clip_land == job.params.clip_land

force_refresh_osm_source == job.params.force_refresh_osm_source

\* _should_cancel of JobManager._run
ShouldCancel == job.cancelled

\* a variant of _emit that passes every event on without touching the status
EmitWithoutStatus(j, ev) == JobEmit(j, ev)

\* _emit of JobManager._run
WorkerEmit(j, ev) ==
    IF IsDoneCancelled(ev)
    THEN JobEmit([j EXCEPT !.status = "cancelled"], ev)
    ELSE JobEmit(j, ev)

\* the thread calls emit(ev) and moves on to d
DlEmit(ev, d) ==
    /\ job' = WorkerEmit(job, ev)
    /\ obs' = Observe(obs, ev)
    /\ dl' = d
    /\ UNCHANGED <<run_pc, stream, calls, cancels>>

\* the thread moves on to d without emitting
DlGoto(d) ==
    /\ dl' = d
    /\ UNCHANGED <<job, run_pc, stream, calls, obs, cancels>>

\* an exception leaves download_admin_boundaries
DlRaise(exc) == [dl EXCEPT !.pc = "raised", !.exc = exc]

\* what str(exc) can be for an exception raised inside the try of the loop
\* body: Overpass failed with both query forms, the payload has no element
\* list, the geometry cannot be built, the land union cannot be loaded, an
\* object file cannot be written
RelationFailures ==
    {"OverpassError", "RuntimeError", "GeometryError", "LandPolygonsError",
     "OSError: osm_source/objects", "OSError: land_only/objects"}

\* an exception is raised inside the try of the loop body
DlExcept(exc) == [dl EXCEPT !.pc = "fail", !.exc = exc]

Phase(p) == JobEvent("object_phase", [relation_id |-> dl.idx, phase |-> p])

\* the call with the keyword arguments the signature accepts
DirectCall == Call(WorkerKwargs \cap DownloaderParams)

\* scope_paths, load_manifest, emit stage start
DlPrelude ==
    /\ dl.pc = "prelude"
    /\ DlEmit(JobEvent("stage", [stage |-> "start"]), [dl EXCEPT !.pc = "log_mode"])
    /\ UNCHANGED <<land_zip, lib>>

\* emit log: the cache mode
DlLogMode ==
    /\ dl.pc = "log_mode"
    /\ DlEmit(JobEvent("log", [message |-> IF force_refresh_osm_source
                                           THEN "OSM source cache mode: force refresh"
                                           ELSE "OSM source cache mode: reuse"]),
              [dl EXCEPT !.pc = IF clip_land THEN "lp_stage" ELSE "progress0"])
    /\ UNCHANGED <<land_zip, lib>>

\* if clip_land: emit stage land_polygons.ensure
DlLandStage ==
    /\ dl.pc = "lp_stage"
    /\ DlEmit(JobEvent("stage", [stage |-> "land_polygons.ensure"]),
              [dl EXCEPT !.pc = "lp_ensure"])
    /\ UNCHANGED <<land_zip, lib>>

\* download_land_polygons: the dataset is on disk, or the loop over urls starts
DlLandEnsure ==
    /\ dl.pc = "lp_ensure"
    /\ DlGoto(IF land_zip
              THEN [dl EXCEPT !.pc = "progress0"]
              ELSE [dl EXCEPT !.pc = "lp_url", !.url = 1, !.last_error = "None"])
    /\ UNCHANGED <<land_zip, lib>>

\* except Exception as exc: last_error = exc; continue
LandNextUrl(err) == [dl EXCEPT !.pc = "lp_url", !.url = @ + 1, !.last_error = err]

\* for url in urls: session.get, raise_for_status; after the last url, raise
DlLandUrl ==
    /\ dl.pc = "lp_url"
    /\ IF dl.url > NumUrls
       THEN DlGoto(DlRaise("Failed to download land polygons: " \o dl.last_error))
       ELSE \/ DlGoto([dl EXCEPT !.pc = "lp_chunk", !.chunks = 0])
            \/ DlGoto(LandNextUrl("HTTPError"))
    /\ UNCHANGED <<land_zip, lib>>

\* for chunk in r.iter_content: the cancel check, write, on_progress
DlLandChunk ==
    /\ dl.pc = "lp_chunk"
    /\ dl.chunks < MaxChunks
    /\ IF ShouldCancel
       THEN DlGoto(LandNextUrl("Cancelled"))
       ELSE DlEmit(JobEvent("land_polygons_download_progress",
                            [done_bytes |-> dl.chunks + 1]),
                   [dl EXCEPT !.chunks = @ + 1])
    /\ UNCHANGED <<land_zip, lib>>

\* the connection breaks while the response is read
DlLandBroken ==
    /\ dl.pc = "lp_chunk"
    /\ DlGoto(LandNextUrl("ConnectionError"))
    /\ UNCHANGED <<land_zip, lib>>

\* the response ends: tmp.replace(dst), the meta file, return dst (the
\* locals of download_land_polygons are gone)
DlLandDone ==
    /\ dl.pc = "lp_chunk"
    /\ dl' = [dl EXCEPT !.pc = "progress0", !.url = 0, !.chunks = 0, !.last_error = ""]
    /\ land_zip' = TRUE
    /\ UNCHANGED <<job, run_pc, stream, calls, obs, cancels, lib>>

\* a variant of the overall_progress payload that counts the relations that
\* succeeded instead of those processed
OverallProgressCountsOk(done) ==
    JobEvent("overall_progress",
             [done |-> dl.ok, total |-> job.params.relation_ids,
              ok |-> dl.ok, failed |-> dl.failed])

OverallProgress(done) ==
    JobEvent("overall_progress",
             [done |-> done, total |-> total, ok |-> dl.ok, failed |-> dl.failed])

\* emit overall_progress done 0; the loop starts at idx 1
DlProgress0 ==
    /\ dl.pc = "progress0"
    /\ DlEmit(OverallProgress(0), [dl EXCEPT !.pc = "loop", !.idx = 1])
    /\ UNCHANGED <<land_zip, lib>>

\* a variant of the loop that checks for a cancel request only before the
\* first relation
DlLoopChecksOnce ==
    /\ dl.pc = "loop"
    /\ IF dl.idx > total
       THEN DlGoto([dl EXCEPT !.pc = "epilogue"])
       ELSE IF ShouldCancel /\ dl.idx = 1
            THEN DlEmit(JobEvent("done", [cancelled |-> TRUE]),
                        [dl EXCEPT !.pc = "returned"])
            ELSE DlGoto([dl EXCEPT !.pc = "object_started"])
    /\ UNCHANGED <<land_zip, lib>>

\* top of the loop: the cancel check; on true done{cancelled} and return
DlLoop ==
    /\ dl.pc = "loop"
    /\ IF dl.idx > total
       THEN DlGoto([dl EXCEPT !.pc = "epilogue"])
       ELSE IF ShouldCancel
            THEN DlEmit(JobEvent("done", [cancelled |-> TRUE]),
                        [dl EXCEPT !.pc = "returned"])
            ELSE DlGoto([dl EXCEPT !.pc = "object_started"])
    /\ UNCHANGED <<land_zip, lib>>

\* the name of the object is looked up, then emit object_started
DlObjectStarted ==
    /\ dl.pc = "object_started"
    /\ DlEmit(JobEvent("object_started",
                       [relation_id |-> dl.idx, index |-> dl.idx, total |-> total]),
              [dl EXCEPT !.pc = "tier", !.osm_reused_from_cache = FALSE])
    /\ UNCHANGED <<land_zip, lib>>

AfterOsmSource == IF clip_land THEN "clip_phase" ELSE "stats"

\* the cache cascade: exported object file, preview cache, Overpass
DlTier ==
    /\ dl.pc = "tier"
    /\ \/ /\ ~force_refresh_osm_source
          /\ DlEmit(Phase("use_osm_source_cache"),
                    [dl EXCEPT !.pc = AfterOsmSource, !.osm_reused_from_cache = TRUE])
       \/ DlEmit(Phase("use_preview_cache"), [dl EXCEPT !.pc = "build_preview"])
       \/ DlEmit(Phase("fetch_overpass"), [dl EXCEPT !.pc = "fetch"])
    /\ UNCHANGED <<land_zip, lib>>

\* preview tier: emit build_geometry, shape(geometry)
DlBuildPreview ==
    /\ dl.pc = "build_preview"
    /\ \E d \in {[dl EXCEPT !.pc = "write_osm"], DlExcept("GeometryError")} :
           DlEmit(Phase("build_geometry"), d)
    /\ UNCHANGED <<land_zip, lib>>

\* Overpass tier: post_overpass fails with the query and with its fallback,
\* or the payload has no element list, or the elements arrive: emit
\* build_geometry, build_relation_geometry (raises when the relation element
\* is missing or its rings do not close)
DlFetch ==
    /\ dl.pc = "fetch"
    /\ \/ \E exc \in {"OverpassError", "RuntimeError"} : DlGoto(DlExcept(exc))
       \/ \E d \in {[dl EXCEPT !.pc = "write_osm"], DlExcept("GeometryError")} :
              DlEmit(Phase("build_geometry"), d)
    /\ UNCHANGED <<land_zip, lib>>

\* emit write_osm_source, write_object_geojson
DlWriteOsm ==
    /\ dl.pc = "write_osm"
    /\ \E d \in {[dl EXCEPT !.pc = AfterOsmSource], DlExcept("OSError: osm_source/objects")} :
           DlEmit(Phase("write_osm_source"), d)
    /\ UNCHANGED <<land_zip, lib>>

\* if clip_land: emit clip_land
DlClipPhase ==
    /\ dl.pc = "clip_phase"
    /\ DlEmit(Phase("clip_land"), [dl EXCEPT !.pc = "clip"])
    /\ UNCHANGED <<land_zip, lib>>

\* the land-only object file is reused, or load_land_union_for_bbox answers
\* (hit or miss) or raises
DlClip ==
    /\ dl.pc = "clip"
    /\ \/ /\ dl.osm_reused_from_cache /\ ~force_refresh_osm_source
          /\ DlEmit(Phase("use_land_only_cache"),
                    [dl EXCEPT !.pc = "clip_ready"])
       \/ DlGoto(DlExcept("LandPolygonsError"))
       \/ \E cache_hit \in BOOLEAN :
              LET hits == dl.clip_cache_hits + (IF cache_hit THEN 1 ELSE 0)
                  misses == dl.clip_cache_misses + (IF cache_hit THEN 0 ELSE 1)
              IN  DlEmit(JobEvent("clip_cache_stats", [hits |-> hits, misses |-> misses]),
                         [dl EXCEPT !.pc = "intersect",
                                    !.clip_cache_hits = hits,
                                    !.clip_cache_misses = misses])
    /\ UNCHANGED <<land_zip, lib>>

\* geom.intersection(land_union): empty, or written (or the write raises)
DlIntersect ==
    /\ dl.pc = "intersect"
    /\ \/ DlGoto([dl EXCEPT !.pc = "stats"])
       \/ DlGoto([dl EXCEPT !.pc = "clip_ready"])
       \/ DlGoto(DlExcept("OSError: land_only/objects"))
    /\ UNCHANGED <<land_zip, lib>>

\* emit object_clipped_ready
DlClipReady ==
    /\ dl.pc = "clip_ready"
    /\ DlEmit(JobEvent("object_clipped_ready", [relation_id |-> dl.idx]),
              [dl EXCEPT !.pc = "stats"])
    /\ UNCHANGED <<land_zip, lib>>

\* per_object_stats[rid] = ..., emit object_stats
DlStats ==
    /\ dl.pc = "stats"
    /\ DlEmit(JobEvent("object_stats", [relation_id |-> dl.idx]),
              [dl EXCEPT !.pc = "done_ok"])
    /\ UNCHANGED <<land_zip, lib>>

\* a variant of the success path that leaves ok as it was
DlDoneOkUncounted ==
    /\ dl.pc = "done_ok"
    /\ DlEmit(JobEvent("object_done", [relation_id |-> dl.idx, ok |-> TRUE]),
              [dl EXCEPT !.pc = "progress"])
    /\ UNCHANGED <<land_zip, lib>>

\* objects[rid] = ..., ok += 1, emit object_done ok
DlDoneOk ==
    /\ dl.pc = "done_ok"
    /\ DlEmit(JobEvent("object_done", [relation_id |-> dl.idx, ok |-> TRUE]),
              [dl EXCEPT !.pc = "progress", !.ok = @ + 1])
    /\ UNCHANGED <<land_zip, lib>>

\* a variant of the loop body without its except clause: the exception of a
\* relation leaves download_admin_boundaries
DlFailPropagates ==
    /\ dl.pc = "fail"
    /\ DlGoto(DlRaise("Exception"))
    /\ UNCHANGED <<land_zip, lib>>

\* a variant of the except clause that reports the failure and leaves
\* failed as it was
DlFailUncounted ==
    /\ dl.pc = "fail"
    /\ DlEmit(JobEvent("object_done",
                       [relation_id |-> dl.idx, ok |-> FALSE, error |-> dl.exc]),
              [dl EXCEPT !.pc = "progress", !.exc = ""])
    /\ UNCHANGED <<land_zip, lib>>

\* except Exception as exc: failed += 1, emit object_done not ok with
\* str(exc)
DlFail ==
    /\ dl.pc = "fail"
    /\ DlEmit(JobEvent("object_done",
                       [relation_id |-> dl.idx, ok |-> FALSE, error |-> dl.exc]),
              [dl EXCEPT !.pc = "progress", !.failed = @ + 1, !.exc = ""])
    /\ UNCHANGED <<land_zip, lib>>

\* emit overall_progress done idx; next relation
DlProgress ==
    /\ dl.pc = "progress"
    /\ DlEmit(OverallProgress(dl.idx), [dl EXCEPT !.pc = "loop", !.idx = @ + 1])
    /\ UNCHANGED <<land_zip, lib>>

\* save_manifest (may raise), emit stage rebuild_combined
DlEpilogue ==
    /\ dl.pc = "epilogue"
    /\ \/ DlGoto(DlRaise("OSError"))
       \/ DlEmit(JobEvent("stage", [stage |-> "rebuild_combined"]),
                 [dl EXCEPT !.pc = "rebuild"])
    /\ UNCHANGED <<land_zip, lib>>

DoneStats ==
    [selected_count |-> total, ok |-> dl.ok, failed |-> dl.failed,
     clip_cache_hits |-> dl.clip_cache_hits,
     clip_cache_misses |-> dl.clip_cache_misses]

\* rebuild_combined, save_json (may raise); if clip_land the first log
DlRebuild ==
    /\ dl.pc = "rebuild"
    /\ \/ DlGoto(DlRaise("OSError"))
       \/ IF clip_land
          THEN DlEmit(JobEvent("log", [message |-> "Clip cache stats",
                                       hits |-> dl.clip_cache_hits,
                                       misses |-> dl.clip_cache_misses]),
                      [dl EXCEPT !.pc = "log_land"])
          ELSE DlEmit(JobEvent("done", [stats |-> DoneStats]),
                      [dl EXCEPT !.pc = "returned"])
    /\ UNCHANGED <<land_zip, lib>>

\* the second log of the epilogue
DlLogLand ==
    /\ dl.pc = "log_land"
    /\ DlEmit(JobEvent("log", [message |-> "Land-only object cache"]),
              [dl EXCEPT !.pc = "done"])
    /\ UNCHANGED <<land_zip, lib>>

\* emit done with the stats; the call returns
DlDone ==
    /\ dl.pc = "done"
    /\ DlEmit(JobEvent("done", [stats |-> DoneStats]), [dl EXCEPT !.pc = "returned"])
    /\ UNCHANGED <<land_zip, lib>>

Downloader ==
    \/ DlPrelude
    \/ DlLogMode
    \/ DlLandStage
    \/ DlLandEnsure
    \/ DlLandUrl
    \/ DlLandChunk
    \/ DlLandBroken
    \/ DlLandDone
    \/ DlProgress0
    \/ DlLoop
    \/ DlObjectStarted
    \/ DlTier
    \/ DlBuildPreview
    \/ DlFetch
    \/ DlWriteOsm
    \/ DlClipPhase
    \/ DlClip
    \/ DlIntersect
    \/ DlClipReady
    \/ DlStats
    \/ DlDoneOk
    \/ DlFail
    \/ DlProgress
    \/ DlEpilogue
    \/ DlRebuild
    \/ DlLogLand
    \/ DlDone

(***************************************************************************)
(* The Job methods statement by statement.  The Downloader runs on a       *)
(* thread of its own (asyncio.to_thread), so its calls of Job.emit         *)
(* interleave with the calls the event loop makes (cancel, the stream);    *)
(* one step is one statement that reads or writes the Job.                 *)
(***************************************************************************)
\* Job.emit(ev) is entered
EmitCall(ev) == [NoCall EXCEPT !.pc = "emit", !.ev = ev]

\* Job.flush_coalesced_events() is entered
FlushCall == [NoCall EXCEPT !.pc = "flush"]

\* Job.on_event_delivered(ev) is entered
DeliveredCall(ev) == [NoCall EXCEPT !.pc = "delivered", !.ev = ev]

\* _enqueue_with_backpressure returns ok to its caller
EnqueueReturn(c, ok) ==
    CASE c.ret = "emit"  -> [c EXCEPT !.pc = "emit_added", !.ok = ok]
      [] c.ret = "flush" -> [c EXCEPT !.pc = IF ok THEN "flush_add" ELSE "done"]
      [] OTHER           -> [c EXCEPT !.pc = "done"]

\* one statement of the call c on the job j: the job and the call after it
CallStep(j, c) ==
    CASE c.pc = "emit" ->
           LET j0 == IF c.ev.type = "overall_progress"
                     THEN [j EXCEPT !.progress = c.ev.data]
                     ELSE j
           IN  [job  |-> j0,
                call |-> IF c.ev.type \in COALESCE_EVENT_TYPES
                         THEN IF c.ev.type \in j0.queued_coalesced_types
                              THEN [c EXCEPT !.pc = "emit_pending"]
                              ELSE [c EXCEPT !.pc = "enqueue", !.ret = "emit"]
                         ELSE [c EXCEPT !.pc = "enqueue", !.ret = "emit_plain"]]
      [] c.pc = "emit_pending" ->
           [job  |-> [j EXCEPT !.pending_coalesced = PendingSet(@, c.ev)],
            call |-> [c EXCEPT !.pc = "done"]]
      [] c.pc = "emit_added" ->
           [job  |-> IF c.ok
                     THEN [j EXCEPT !.queued_coalesced_types = @ \cup {c.ev.type}]
                     ELSE [j EXCEPT !.pending_coalesced = PendingSet(@, c.ev)],
            call |-> [c EXCEPT !.pc = "done"]]
      \* if not self.queue.full()
      [] c.pc = "enqueue" ->
           [job  |-> j,
            call |-> [c EXCEPT !.pc = IF QueueFull(j.queue) THEN "get_nowait" ELSE "put"]]
      \* the first put_nowait: asyncio.QueueFull is not handled here
      [] c.pc = "put" ->
           IF QueueFull(j.queue)
           THEN [job |-> j, call |-> [c EXCEPT !.pc = "raised"]]
           ELSE [job |-> [j EXCEPT !.queue = Append(@, c.ev)],
                 call |-> EnqueueReturn(c, TRUE)]
      [] c.pc = "get_nowait" ->
           IF j.queue = <<>>
           THEN [job |-> j, call |-> [c EXCEPT !.pc = "put_again", !.dropped = NoEvent]]
           ELSE [job |-> [j EXCEPT !.queue = Tail(@)],
                 call |-> [c EXCEPT !.pc = "count_dropped", !.dropped = Head(j.queue)]]
      [] c.pc = "count_dropped" ->
           [job  |-> [j EXCEPT !.dropped_events = @ + 1,
                               !.queued_coalesced_types = @ \ {c.dropped.type}],
            call |-> [c EXCEPT !.pc = "put_again", !.dropped = NoEvent]]
      \* the second put_nowait, with its except asyncio.QueueFull
      [] c.pc = "put_again" ->
           IF QueueFull(j.queue)
           THEN [job |-> [j EXCEPT !.dropped_events = @ + 1],
                 call |-> EnqueueReturn(c, FALSE)]
           ELSE [job |-> [j EXCEPT !.queue = Append(@, c.ev)],
                 call |-> EnqueueReturn(c, TRUE)]
      \* if not self.pending_coalesced: return; list(self.pending_coalesced.keys())
      [] c.pc = "flush" ->
           [job  |-> j,
            call |-> IF j.pending_coalesced = <<>>
                     THEN [c EXCEPT !.pc = "done"]
                     ELSE [c EXCEPT !.pc = "flush_next",
                                    !.keys = PendingTypes(j.pending_coalesced)]]
      \* for ev_type in ...: if ev_type in self.queued_coalesced_types: continue
      [] c.pc = "flush_next" ->
           [job  |-> j,
            call |-> IF c.keys = <<>>
                     THEN [c EXCEPT !.pc = "done"]
                     ELSE IF Head(c.keys) \in j.queued_coalesced_types
                          THEN [c EXCEPT !.keys = Tail(@)]
                          ELSE [c EXCEPT !.pc = "flush_get"]]
      \* ev = self.pending_coalesced.get(ev_type); if ev is None: continue
      [] c.pc = "flush_get" ->
           [job  |-> j,
            call |-> IF PendingHas(j.pending_coalesced, Head(c.keys))
                     THEN [c EXCEPT !.pc = "enqueue", !.ret = "flush",
                                    !.ev = PendingGet(j.pending_coalesced, Head(c.keys))]
                     ELSE [c EXCEPT !.pc = "flush_next", !.keys = Tail(@)]]
      [] c.pc = "flush_add" ->
           [job  |-> [j EXCEPT !.queued_coalesced_types = @ \cup {Head(c.keys)}],
            call |-> [c EXCEPT !.pc = "flush_pop"]]
      [] c.pc = "flush_pop" ->
           [job  |-> [j EXCEPT !.pending_coalesced = PendingPop(@, Head(c.keys))],
            call |-> [c EXCEPT !.pc = "flush_next", !.keys = Tail(@), !.ev = NoEvent]]
      \* on_event_delivered: discard, then flush_coalesced_events()
      [] c.pc = "delivered" ->
           IF c.ev.type \in COALESCE_EVENT_TYPES
           THEN [job  |-> [j EXCEPT !.queued_coalesced_types = @ \ {c.ev.type}],
                 call |-> FlushCall]
           ELSE [job |-> j, call |-> [c EXCEPT !.pc = "done"]]
      [] OTHER -> [job |-> j, call |-> c]

InCall(c) == c.pc \notin {"idle", "done", "raised"}

(***************************************************************************)
(* The service as written: the worker's call of the Downloader             *)
(***************************************************************************)
Next ==
    \/ RunStart
    \/ ThreadCall
    \/ RunFinish
    \/ Cancel
    \/ StreamStep

Spec == Init /\ [][Next]_vars

(***************************************************************************)
(* One run of the Downloader under the worker: the call is made with the   *)
(* keyword arguments download_admin_boundaries accepts, emit and           *)
(* should_cancel are the closures of JobManager._run.  No stream is open:  *)
(* what the run emits does not depend on what is consumed.                 *)
(***************************************************************************)
NextRun ==
    \/ RunStart
    \/ DirectCall
    \/ Downloader
    \/ RunFinish
    \/ Cancel

SpecRun == Init /\ [][NextRun]_vars

\* The event loop runs the task it has scheduled, the thread it has started
\* runs, and every request the Downloader makes has a timeout: each step of
\* the worker that can be taken is taken.  Cancel requests are the client's.
FairRun ==
    SpecRun /\ WF_vars(RunStart \/ DirectCall \/ Downloader \/ RunFinish)

(***************************************************************************)
(* The job while the Downloader thread streams the land-polygon dataset:   *)
(* the thread's emit calls and the event loop's handlers (cancel, one      *)
(* event stream, the end of _run) interleave statement by statement.       *)
(***************************************************************************)
\* what the worker has emitted when download_land_polygons starts to stream
PreludeEvents ==
    <<JobEvent("job_started", [job_id |-> "job"]),
      JobEvent("stage", [stage |-> "start"]),
      JobEvent("log", [message |-> "OSM source cache mode: reuse"]),
      JobEvent("stage", [stage |-> "land_polygons.ensure"])>>

RECURSIVE EmitAll(_, _)
EmitAll(j, evs) ==
    IF evs = <<>> THEN j ELSE EmitAll(JobEmit(j, Head(evs)), Tail(evs))

\* a job with clip_land whose dataset file is missing; nothing was consumed
InitJob ==
    /\ job = EmitAll([NewJob([clip_land |-> TRUE,
                              force_refresh_osm_source |-> FALSE,
                              relation_ids |-> 1])
                        EXCEPT !.status = "running"],
                     PreludeEvents)
    /\ land_zip = FALSE
    /\ run_pc = "awaiting"
    /\ dl = [IdleThread EXCEPT !.pc = "lp_chunk", !.url = 1, !.last_error = "None"]
    /\ stream = [s \in Streams |-> [pc |-> "none"]]
    /\ calls = NoCalls
    /\ obs = ObserveAll(NoHistory, PreludeEvents)
    /\ cancels = 0
    /\ LibAtRest

\* a chunk arrives: the cancel check, then on_progress enters Job.emit
ThreadChunk ==
    /\ dl.pc = "lp_chunk"
    /\ calls.worker.pc = "idle"
    /\ dl.chunks < MaxChunks
    /\ IF ShouldCancel
       THEN /\ dl' = LandNextUrl("Cancelled")
            /\ UNCHANGED <<calls, obs>>
       ELSE LET ev == JobEvent("land_polygons_download_progress",
                               [done_bytes |-> dl.chunks + 1])
            IN  /\ dl' = [dl EXCEPT !.chunks = @ + 1]
                /\ calls' = [calls EXCEPT !.worker = EmitCall(ev)]
                /\ obs' = Observe(obs, ev)
    /\ UNCHANGED <<job, run_pc, stream, land_zip, lib, cancels>>

\* the thread runs one statement of Job.emit; an exception of on_progress is
\* caught by the except Exception of download_land_polygons
ThreadStep ==
    /\ InCall(calls.worker)
    /\ LET r == CallStep(job, calls.worker)
       IN  /\ job' = r.job
           /\ calls' = [calls EXCEPT !.worker = IF InCall(r.call) THEN r.call ELSE NoCall]
           /\ dl' = IF r.call.pc = "raised" THEN LandNextUrl("QueueFull") ELSE dl
    /\ UNCHANGED <<run_pc, stream, land_zip, lib, obs, cancels>>

\* the next url is requested, or the connection breaks
ThreadUrl ==
    /\ calls.worker.pc = "idle"
    /\ (DlLandUrl \/ DlLandBroken)

LoopIdle == calls.loop.pc = "idle"

\* JobManager.cancel: request_cancel, then Job.emit is entered
JobCancel ==
    /\ LoopIdle
    /\ cancels < MaxCancels
    /\ job' = [job EXCEPT !.cancelled = TRUE]
    /\ calls' = [calls EXCEPT
                   !.loop = EmitCall(JobEvent("log", [message |-> "Cancel requested"])),
                   !.then = "return"]
    /\ obs' = ObserveCancel(obs, dl)
    /\ cancels' = cancels + 1
    /\ UNCHANGED <<run_pc, dl, stream, land_zip, lib>>

\* the stream is opened: hello
JobOpen ==
    /\ LoopIdle
    /\ stream["s1"].pc = "none"
    /\ stream' = [stream EXCEPT !["s1"].pc = "top"]
    /\ UNCHANGED <<job, run_pc, dl, land_zip, lib, calls, obs, cancels>>

\* top of the stream's loop: flush_coalesced_events is entered
JobIter ==
    /\ LoopIdle
    /\ stream["s1"].pc = "top"
    /\ calls' = [calls EXCEPT !.loop = FlushCall, !.then = "get"]
    /\ UNCHANGED <<job, run_pc, dl, stream, land_zip, lib, obs, cancels>>

\* queue.get() returns an event: on_event_delivered is entered
JobGet ==
    /\ LoopIdle
    /\ stream["s1"].pc = "get"
    /\ job.queue # <<>>
    /\ job' = [job EXCEPT !.queue = Tail(@)]
    /\ calls' = [calls EXCEPT !.loop = DeliveredCall(Head(job.queue)),
                              !.then = "yield", !.got = Head(job.queue)]
    /\ UNCHANGED <<run_pc, dl, stream, land_zip, lib, obs, cancels>>

\* queue.get() times out: flush_coalesced_events is entered, then ping
JobTimeout ==
    /\ LoopIdle
    /\ stream["s1"].pc = "get"
    /\ job.queue = <<>>
    /\ calls' = [calls EXCEPT !.loop = FlushCall, !.then = "top"]
    /\ UNCHANGED <<job, run_pc, dl, stream, land_zip, lib, obs, cancels>>

\* the handler goes on when the call it made has returned; an exception of
\* the call ends the stream's generator
LoopThen(raised) ==
    CASE calls.then = "return" -> stream
      [] raised                -> [stream EXCEPT !["s1"].pc = "broken"]
      [] calls.then = "get"    -> [stream EXCEPT !["s1"].pc = "get"]
      [] calls.then = "top"    -> [stream EXCEPT !["s1"].pc = "top"]
      [] calls.then = "yield"  ->
           [stream EXCEPT
              !["s1"].pc = IF calls.got.type = "job_finished" THEN "closed" ELSE "top"]
      [] OTHER                 -> stream

\* the event loop runs one statement of the call it is inside
LoopStep ==
    /\ InCall(calls.loop)
    /\ LET r == CallStep(job, calls.loop)
       IN  /\ job' = r.job
           /\ IF InCall(r.call)
              THEN /\ calls' = [calls EXCEPT !.loop = r.call]
                   /\ UNCHANGED stream
              ELSE /\ calls' = [calls EXCEPT !.loop = NoCall, !.then = "", !.got = NoEvent]
                   /\ stream' = LoopThen(r.call.pc = "raised")
    /\ UNCHANGED <<run_pc, dl, land_zip, lib, obs, cancels>>

\* the thread has ended: _run goes on after its await
JobFinish ==
    /\ LoopIdle
    /\ calls.worker.pc = "idle"
    /\ RunFinish

NextJob ==
    \/ ThreadChunk
    \/ ThreadStep
    \/ ThreadUrl
    \/ JobCancel
    \/ JobOpen
    \/ JobIter
    \/ JobGet
    \/ JobTimeout
    \/ LoopStep
    \/ JobFinish

SpecJob == InitJob /\ [][NextJob]_vars

(***************************************************************************)
(* The scope directory.  An object file is its name and the tags of its    *)
(* feature; a directory is the set of its files.  Text is kept by its      *)
(* parts: the name "R7" is [text |-> "R", n |-> 7], the file name          *)
(* "<slug>__<iso2>__r<rid>.geojson" is [slug, iso2, rid].                   *)
(***************************************************************************)
Rids == 1..StoreRelations

\* the tags Overpass or a cache may give for a relation: none that names it,
\* or the name "R<n>" of the last relation id, under either key
TagSets ==
    {NoTags} \cup {[key |-> k, n |-> StoreRelations] : k \in {"name", "name:en"}}

NoName == [text |-> "", n |-> 0]

\* utils.preferred_english_name_from_tags: name:en comes before name
PreferredEnglishName(tags) ==
    IF tags.key \in {"name:en", "name"} THEN [text |-> "R", n |-> tags.n] ELSE NoName

\* utils.slugify: lower case, runs of other characters become one "-"
Slugify(name) ==
    CASE name.text = ""          -> [text |-> "unnamed", n |-> 0]
      [] name.text = "R"         -> [text |-> "r", n |-> name.n]
      [] name.text = "relation " -> [text |-> "relation-", n |-> name.n]

\* storage.object_filename
ObjectFilename(rid, tags) ==
    LET named == PreferredEnglishName(tags)
        name  == IF named # NoName THEN named ELSE [text |-> "relation ", n |-> rid]
    IN  [slug |-> Slugify(name), iso2 |-> "xx", rid |-> rid]

\* the file name matches r<rid>__*.geojson
MatchesPrefix(name, rid) == name.slug = [text |-> "r", n |-> rid]

\* the file name matches *__r<rid>.geojson
MatchesSuffix(name, rid) == name.rid = rid

\* storage._rel_glob
RelGlob(dir, rid) ==
    {f \in dir : MatchesPrefix(f.name, rid) \/ MatchesSuffix(f.name, rid)}

\* write_object_geojson up to the write: every match of _rel_glob under
\* another name is unlinked
UnlinkOthers(dir, rid, tags) ==
    {f \in dir : f \notin RelGlob(dir, rid) \/ f.name = ObjectFilename(rid, tags)}

\* storage.write_object_geojson: the unlinks, then the file is replaced
WriteObjectGeojson(dir, rid, tags) ==
    {f \in UnlinkOthers(dir, rid, tags) : f.name # ObjectFilename(rid, tags)}
        \cup {[name |-> ObjectFilename(rid, tags), tags |-> tags]}

\* _tags_from_object_properties, _tags_from_feature_properties: the key name
\* is reserved and left out
TagsFromProperties(tags) == IF tags.key = "name" THEN NoTags ELSE tags

\* _load_cached_osm_object: the files of _rel_glob whose feature has osm_id
\* rid (the writer sets osm_id to the rid of the file name)
CachedObjects(dir, rid) == {f \in RelGlob(dir, rid) : f.name.rid = rid}

\* preview._load_scoped_object_feature: the files matching *__r<rid>.geojson
ScopedObjects(dir, rid) == {f \in dir : MatchesSuffix(f.name, rid)}

(***************************************************************************)
(* Runs of download_admin_boundaries over one scope directory, one after   *)
(* the other, and scoped previews between them.  Of a run only what        *)
(* touches the directory is kept; rid idx is the idx-th relation id.       *)
(***************************************************************************)
StoreAfterOsm == IF run.clip_land THEN "clip" ELSE "entry"

\* the call: load_manifest, objects = manifest["objects"]
StoreCall ==
    /\ run.pc = "idle"
    /\ \E n \in Rids, clip \in BOOLEAN, force \in BOOLEAN :
           run' = [IdleRun EXCEPT !.pc = "loop", !.n = n, !.clip_land = clip,
                                  !.force = force, !.idx = 1,
                                  !.objects = disk.manifest]
    /\ UNCHANGED <<exceptStore, disk, latest>>

\* top of the loop: should_cancel() answers; on true the call returns
StoreLoop ==
    /\ run.pc = "loop"
    /\ IF run.idx > run.n
       THEN run' = [run EXCEPT !.pc = "epilogue"]
       ELSE \E cancelled \in BOOLEAN :
                run' = [run EXCEPT !.pc = IF cancelled THEN "returned" ELSE "osm",
                                   !.reused = FALSE, !.tags = NoTags]
    /\ UNCHANGED <<exceptStore, disk, latest>>

\* the cache cascade: the object file of an earlier write is reused, or the
\* geometry comes from the preview cache or Overpass (or that raises) and
\* write_object_geojson stores it (or raises after its unlinks)
StoreOsm ==
    /\ run.pc = "osm"
    /\ IF ~run.force /\ CachedObjects(disk.osm, run.idx) # {}
       THEN /\ \E f \in CachedObjects(disk.osm, run.idx) :
                   run' = [run EXCEPT !.pc = StoreAfterOsm, !.reused = TRUE,
                                      !.tags = TagsFromProperties(f.tags)]
            /\ UNCHANGED disk
       ELSE \/ /\ run' = [run EXCEPT !.pc = "fail"]
               /\ UNCHANGED disk
            \/ \E tags \in TagSets :
                   \/ /\ disk' = [disk EXCEPT
                                    !.osm = WriteObjectGeojson(@, run.idx, tags)]
                      /\ run' = [run EXCEPT !.pc = StoreAfterOsm, !.tags = tags]
                   \/ /\ disk' = [disk EXCEPT !.osm = UnlinkOthers(@, run.idx, tags)]
                      /\ run' = [run EXCEPT !.pc = "fail"]
    /\ UNCHANGED <<exceptStore, latest>>

\* if clip_land: the land-only file is reused, or load_land_union_for_bbox
\* raises, or the intersection is empty (nothing is written), or it is
\* written (or the write raises after its unlinks)
StoreClip ==
    /\ run.pc = "clip"
    /\ IF run.reused /\ ~run.force /\ CachedObjects(disk.land, run.idx) # {}
       THEN /\ run' = [run EXCEPT !.pc = "entry"]
            /\ latest' = [latest EXCEPT ![run.idx] = "nonempty"]
            /\ UNCHANGED disk
       ELSE \/ /\ run' = [run EXCEPT !.pc = "fail"]
               /\ UNCHANGED <<disk, latest>>
            \/ /\ run' = [run EXCEPT !.pc = "entry"]
               /\ latest' = [latest EXCEPT ![run.idx] = "empty"]
               /\ UNCHANGED disk
            \/ /\ disk' = [disk EXCEPT
                             !.land = WriteObjectGeojson(@, run.idx, run.tags)]
               /\ run' = [run EXCEPT !.pc = "entry"]
               /\ latest' = [latest EXCEPT ![run.idx] = "nonempty"]
            \/ /\ disk' = [disk EXCEPT !.land = UnlinkOthers(@, run.idx, run.tags)]
               /\ run' = [run EXCEPT !.pc = "fail"]
               /\ latest' = [latest EXCEPT ![run.idx] = "unwritten"]
    /\ UNCHANGED exceptStore

\* objects[str(rid)] = ..., ok += 1, object_done ok, overall_progress
StoreEntry ==
    /\ run.pc = "entry"
    /\ run' = [run EXCEPT !.pc = "loop", !.idx = @ + 1,
                          !.objects = @ \cup {run.idx},
                          !.reported = @ \cup {run.idx}]
    /\ UNCHANGED <<exceptStore, disk, latest>>

\* except Exception: failed += 1, object_done not ok, overall_progress
StoreFail ==
    /\ run.pc = "fail"
    /\ run' = [run EXCEPT !.pc = "loop", !.idx = @ + 1]
    /\ UNCHANGED <<exceptStore, disk, latest>>

\* after the loop: manifest["objects"] = objects, save_manifest (or it
\* raises and the manifest stays), the combined files, done{stats}
StoreEpilogue ==
    /\ run.pc = "epilogue"
    /\ \/ /\ disk' = [disk EXCEPT !.manifest = run.objects]
          /\ run' = [run EXCEPT !.pc = "returned"]
       \/ /\ run' = [run EXCEPT !.pc = "raised"]
          /\ UNCHANGED disk
    /\ UNCHANGED <<exceptStore, latest>>

\* the call is over; the next may start
StoreEnd ==
    /\ run.pc \in {"returned", "raised"}
    /\ run' = IdleRun
    /\ UNCHANGED <<exceptStore, disk, latest>>

\* preview_features with a scope, for one relation without an object file
\* in the scope: the feature of the preview cache or of Overpass is written
\* with write_object_geojson
PreviewWrite ==
    /\ run.pc = "idle"
    /\ \E rid \in Rids, tags \in TagSets :
           /\ ScopedObjects(disk.osm, rid) = {}
           /\ disk' = [disk EXCEPT
                         !.osm = WriteObjectGeojson(@, rid, TagsFromProperties(tags))]
    /\ UNCHANGED <<exceptStore, run, latest>>

NextStore ==
    \/ StoreCall
    \/ StoreLoop
    \/ StoreOsm
    \/ StoreClip
    \/ StoreEntry
    \/ StoreFail
    \/ StoreEpilogue
    \/ StoreEnd
    \/ PreviewWrite

InitStore == JobAtRest /\ LibAtRest

SpecStore == InitStore /\ [][NextStore]_vars

(***************************************************************************)
(* The land-union cache: an OrderedDict, here the sequence of its keys     *)
(* from the least to the most recently used.  A key stands for the 5-tuple *)
(* of _bbox_cache_key.                                                     *)
(***************************************************************************)
Keys == 1..NumKeys

InCache(c, k) == \E i \in 1..Len(c) : c[i] = k

\* a variant of move_to_end that leaves the key where it is
MoveToEndKeepsPlace(c, k) == c

\* OrderedDict.move_to_end(key)
MoveToEnd(c, k) == Append(SelectSeq(c, LAMBDA x : x # k), k)

\* _land_union_cache[key] = unioned: a new key goes to the end, a key that
\* is present keeps its place
CacheSet(c, k) == IF InCache(c, k) THEN c ELSE Append(c, k)

\* OrderedDict.popitem(last=False)
PopItem(c) == Tail(c)

\* load_land_union_for_bbox run alone, the union computed: the cache after
\* the call and the hit flag it returns
LoadLandUnionForBbox(c, k) ==
    IF InCache(c, k)
    THEN [cache |-> MoveToEnd(c, k), hit |-> TRUE]
    ELSE [cache |-> IF Len(CacheSet(c, k)) > LAND_UNION_CACHE_MAX
                    THEN PopItem(CacheSet(c, k))
                    ELSE CacheSet(c, k),
          hit |-> FALSE]

\* the history after a completed lookup of k that answered hit: for the key
\* followed, how many distinct other keys were looked up since it was
\* inserted or last hit (counted up to the capacity)
SinceAfter(s, k, hit) ==
    IF k = s.key
    THEN [s EXCEPT !.tracked = TRUE, !.keys = {}, !.hit = hit,
                   !.looked = IF s.tracked THEN Cardinality(s.keys) ELSE -1]
    ELSE IF s.tracked /\ Cardinality(s.keys \cup {k}) <= LAND_UNION_CACHE_MAX
         THEN [s EXCEPT !.keys = @ \cup {k}]
         ELSE s

\* one call of load_land_union_for_bbox, from the lookup to the return
LruCall ==
    /\ \E k \in Keys :
           /\ cache' = LoadLandUnionForBbox(cache, k).cache
           /\ since' = SinceAfter(since, k, LoadLandUnionForBbox(cache, k).hit)
    /\ UNCHANGED <<exceptCache, thr>>

\* a miss whose area has no land: LandPolygonsError, nothing is stored
LruRaise ==
    /\ \E k \in Keys : ~InCache(cache, k)
    /\ UNCHANGED vars

NextLru == LruCall \/ LruRaise

InitLru ==
    /\ JobAtRest
    /\ StoreAtRest
    /\ FileAtRest
    /\ SvcAtRest
    /\ FnAtRest
    /\ cache = <<>>
    /\ thr = [t \in CacheThreads |-> IdleCall]
    /\ since \in {[NoLookups EXCEPT !.key = k] : k \in Keys}

\* calls of load_land_union_for_bbox one after the other
SpecLru == InitLru /\ [][NextLru]_vars

(***************************************************************************)
(* load_land_union_for_bbox called by the threads of jobs that run at the  *)
(* same time.  The function takes no lock; one step is one operation on    *)
(* the OrderedDict, which the interpreter runs whole.                      *)
(***************************************************************************)
\* key = _bbox_cache_key(bbox, bbox_pad_deg)
CacheCall(t) ==
    /\ thr[t].pc = "idle"
    /\ \E k \in Keys : thr' = [thr EXCEPT ![t] = [IdleCall EXCEPT !.pc = "get", !.key = k]]
    /\ UNCHANGED <<exceptCache, cache, since>>

\* cached = _land_union_cache.get(key); if cached is not None
CacheGet(t) ==
    /\ thr[t].pc = "get"
    /\ thr' = [thr EXCEPT ![t].pc = IF InCache(cache, thr[t].key)
                                    THEN "move" ELSE "compute"]
    /\ UNCHANGED <<exceptCache, cache, since>>

\* _land_union_cache.move_to_end(key): KeyError when the key is gone
CacheMove(t) ==
    /\ thr[t].pc = "move"
    /\ IF InCache(cache, thr[t].key)
       THEN /\ cache' = MoveToEnd(cache, thr[t].key)
            /\ thr' = [thr EXCEPT ![t].pc = "returned"]
       ELSE /\ thr' = [thr EXCEPT ![t].pc = "raised", ![t].exc = "KeyError"]
            /\ UNCHANGED cache
    /\ UNCHANGED <<exceptCache, since>>

\* the land subset and its union, or LandPolygonsError
CacheCompute(t) ==
    /\ thr[t].pc = "compute"
    /\ \/ thr' = [thr EXCEPT ![t].pc = "insert"]
       \/ thr' = [thr EXCEPT ![t].pc = "raised", ![t].exc = "LandPolygonsError"]
    /\ UNCHANGED <<exceptCache, cache, since>>

\* _land_union_cache[key] = unioned
CacheInsert(t) ==
    /\ thr[t].pc = "insert"
    /\ cache' = CacheSet(cache, thr[t].key)
    /\ thr' = [thr EXCEPT ![t].pc = "len"]
    /\ UNCHANGED <<exceptCache, since>>

\* if len(_land_union_cache) > _LAND_UNION_CACHE_MAX
CacheLen(t) ==
    /\ thr[t].pc = "len"
    /\ thr' = [thr EXCEPT ![t].pc = IF Len(cache) > LAND_UNION_CACHE_MAX
                                    THEN "pop" ELSE "returned"]
    /\ UNCHANGED <<exceptCache, cache, since>>

\* _land_union_cache.popitem(last=False)
CachePop(t) ==
    /\ thr[t].pc = "pop"
    /\ cache' = PopItem(cache)
    /\ thr' = [thr EXCEPT ![t].pc = "returned"]
    /\ UNCHANGED <<exceptCache, since>>

\* the call has returned or raised
CacheEnd(t) ==
    /\ thr[t].pc \in {"returned", "raised"}
    /\ thr' = [thr EXCEPT ![t] = IdleCall]
    /\ UNCHANGED <<exceptCache, cache, since>>

NextCache ==
    \E t \in CacheThreads :
        \/ CacheCall(t)
        \/ CacheGet(t)
        \/ CacheMove(t)
        \/ CacheCompute(t)
        \/ CacheInsert(t)
        \/ CacheLen(t)
        \/ CachePop(t)
        \/ CacheEnd(t)

InitCache == JobAtRest /\ LibAtRest

SpecCache == InitCache /\ [][NextCache]_vars

(***************************************************************************)
(* _atomic_write_text on one path, by threads of one process, and a reader *)
(* of the path.  The temporary file is path + ".<pid>.tmp": the threads of *)
(* a process share its name.  A file is the sequence of its chunks, "hole" *)
(* where nothing was written below the end.  An open file follows its      *)
(* inode: wr[w].at says under which name the inode is now, or "unlinked".  *)
(***************************************************************************)
\* this thread's write lands at its own offset
WriteAt(content, offset, chunk) ==
    [i \in 1..(IF offset + 1 > Len(content) THEN offset + 1 ELSE Len(content)) |->
        IF i = offset + 1 THEN chunk
        ELSE IF i <= Len(content) THEN content[i] ELSE "hole"]

\* tmp.write_text: open(tmp, "w") creates the file or truncates it
FileOpen(w) ==
    /\ wr[w].pc = "idle"
    /\ fs' = [fs EXCEPT !.tmp = <<>>]
    /\ wr' = [wr EXCEPT ![w] = [pc |-> "writing", at |-> "tmp", offset |-> 0]]
    /\ UNCHANGED <<exceptFile, seen>>

\* tmp.write_text: one write call
FileWrite(w) ==
    /\ wr[w].pc = "writing"
    /\ wr[w].offset < TextChunks
    /\ fs' = IF wr[w].at = "unlinked"
             THEN fs
             ELSE [fs EXCEPT ![wr[w].at] = WriteAt(@, wr[w].offset, w)]
    /\ wr' = [wr EXCEPT ![w].offset = @ + 1]
    /\ UNCHANGED <<exceptFile, seen>>

\* tmp.write_text: the text is written, close
FileClose(w) ==
    /\ wr[w].pc = "writing"
    /\ wr[w].offset = TextChunks
    /\ wr' = [wr EXCEPT ![w].pc = "replace", ![w].at = ""]
    /\ UNCHANGED <<exceptFile, fs, seen>>

\* where an open file is after tmp has been renamed to path
Renamed(at) ==
    CASE at = "tmp"  -> "path"
      [] at = "path" -> "unlinked"
      [] OTHER       -> at

\* tmp.replace(path): FileNotFoundError when tmp is gone
FileReplace(w) ==
    /\ wr[w].pc = "replace"
    /\ IF fs.tmp = Absent
       THEN /\ wr' = [wr EXCEPT ![w].pc = "raised"]
            /\ UNCHANGED fs
       ELSE /\ fs' = [path |-> fs.tmp, tmp |-> Absent]
            /\ wr' = [v \in FileWriters |->
                        IF v = w THEN [wr[v] EXCEPT !.pc = "done"]
                        ELSE [wr[v] EXCEPT !.at = Renamed(@)]]
    /\ UNCHANGED <<exceptFile, seen>>

\* _atomic_write_text has returned or raised
FileEnd(w) ==
    /\ wr[w].pc \in {"done", "raised"}
    /\ wr' = [wr EXCEPT ![w] = IdleWriter]
    /\ UNCHANGED <<exceptFile, fs, seen>>

\* a reader: path.read_text()
FileRead ==
    /\ seen' = fs.path
    /\ UNCHANGED <<exceptFile, fs, wr>>

NextFile ==
    \/ \E w \in FileWriters :
           \/ FileOpen(w)
           \/ FileWrite(w)
           \/ FileClose(w)
           \/ FileReplace(w)
           \/ FileEnd(w)
    \/ FileRead

InitFile == JobAtRest /\ LibAtRest

SpecFile == InitFile /\ [][NextFile]_vars

(***************************************************************************)
(* The cache files of the preview and of the catalog are written with      *)
(* path.write_text on the target itself (_save_cached_feature,             *)
(* _save_ids_cache, _save_items_cache); the files of a scope directory go  *)
(* through _atomic_write_text.  One thread writes at a time here, and a    *)
(* write call may fail (disk full, the process is stopped).                *)
(***************************************************************************)
\* path.write_text: open(path, "w") creates the target or truncates it
SaveOpen(w) ==
    /\ wr[w].pc = "idle"
    /\ fs' = [fs EXCEPT !.path = <<>>]
    /\ wr' = [wr EXCEPT ![w] = [pc |-> "saving", at |-> "path", offset |-> 0]]
    /\ UNCHANGED <<exceptFile, seen>>

\* path.write_text: one write call, then close when the text is written
SaveWrite(w) ==
    /\ wr[w].pc = "saving"
    /\ IF wr[w].offset < TextChunks
       THEN /\ fs' = [fs EXCEPT !.path = WriteAt(@, wr[w].offset, w)]
            /\ wr' = [wr EXCEPT ![w].offset = @ + 1]
       ELSE /\ wr' = [wr EXCEPT ![w].pc = "done", ![w].at = ""]
            /\ UNCHANGED fs
    /\ UNCHANGED <<exceptFile, seen>>

\* a write call fails: write_text closes the file and the error leaves it
\* (_atomic_write_text lets it out, the cache writers swallow it and return)
WriteRaises(w) ==
    /\ wr[w].pc \in {"writing", "saving"}
    /\ wr[w].offset < TextChunks
    /\ wr' = [wr EXCEPT ![w].pc = "raised", ![w].at = ""]
    /\ UNCHANGED <<exceptFile, fs, seen>>

\* the writes of one thread, atomic or on the target, and a reader
NextJson ==
    \/ \E w \in {"w1"} :
           \/ FileOpen(w)
           \/ FileWrite(w)
           \/ FileClose(w)
           \/ FileReplace(w)
           \/ SaveOpen(w)
           \/ SaveWrite(w)
           \/ WriteRaises(w)
           \/ FileEnd(w)
    \/ FileRead

SpecJson == InitFile /\ [][NextJson]_vars

(***************************************************************************)
(* The registry of the Job Manager: create_job with its eviction of        *)
(* finished jobs, jobs reaching a terminal status, and the clock.  A job   *)
(* is [id, terminal, created, finished]; finished = 0 is None (time.time() *)
(* is positive).  Ids grow in creation order, the order of the dict;       *)
(* registry.created counts the jobs created so far, registry.before is the *)
(* registry as create_job found it, kept until the next step.              *)
(* registry.op is "create_job" or "400" right after such a call.           *)
(***************************************************************************)
\* the mutation of SortKey: the jobs are sorted by creation time alone
SortKeyByCreation(j) == j.created

\* key=lambda x: x[1].finished_at_epoch or x[1].created_at_epoch
SortKey(j) == IF j.finished # 0 THEN j.finished ELSE j.created

\* step 1 of _evict_finished_jobs: the finished jobs past the grace period
Expired(jobs, now) ==
    {j \in jobs : /\ j.terminal
                  /\ j.finished # 0
                  /\ now - j.finished > FINISHED_JOB_GRACE_SEC}

\* the mutation of OverLimit: the cap counts and removes jobs of any status
OverLimitOfAllJobs(jobs) ==
    LET First(a, b) == \/ SortKey(a) < SortKey(b)
                       \/ SortKey(a) = SortKey(b) /\ a.id < b.id
        evicted_over_limit == Cardinality(jobs) - MAX_FINISHED_JOBS
    IN  IF Cardinality(jobs) > MAX_FINISHED_JOBS
        THEN {j \in jobs :
                 Cardinality({k \in jobs : First(k, j)}) < evicted_over_limit}
        ELSE {}

\* step 2: the first len - _MAX_FINISHED_JOBS of the remaining finished jobs,
\* sorted by SortKey (a stable sort of the dict's order)
OverLimit(jobs) ==
    LET remaining_finished == {j \in jobs : j.terminal}
        First(a, b) == \/ SortKey(a) < SortKey(b)
                       \/ SortKey(a) = SortKey(b) /\ a.id < b.id
        evicted_over_limit == Cardinality(remaining_finished) - MAX_FINISHED_JOBS
    IN  IF Cardinality(remaining_finished) > MAX_FINISHED_JOBS
        THEN {j \in remaining_finished :
                 Cardinality({k \in remaining_finished : First(k, j)})
                     < evicted_over_limit}
        ELSE {}

\* _evict_finished_jobs
EvictFinishedJobs(jobs, now) ==
    LET kept == jobs \ Expired(jobs, now)
    IN  kept \ OverLimit(kept)

\* create_job, under the lock: evict, then register the new job (queued)
CreateJob ==
    /\ registry.created < MaxJobs
    /\ registry' =
           [registry EXCEPT
              !.jobs = EvictFinishedJobs(registry.jobs, registry.now)
                       \cup {[id |-> registry.created + 1, terminal |-> FALSE,
                              created |-> registry.now, finished |-> 0]},
              !.created = @ + 1,
              !.op = "create_job",
              !.before = registry.jobs]
    /\ UNCHANGED exceptRegistry

\* _run: the job gets its final status, and finished_at_epoch in the finally
\* clause; the job object lives on when the registry has dropped it
RunEnds ==
    /\ \E j \in registry.jobs :
           /\ j.finished = 0
           /\ registry' =
                  [registry EXCEPT
                     !.jobs = (@ \ {j}) \cup {[j EXCEPT !.terminal = TRUE,
                                                        !.finished = registry.now]},
                     !.op = "", !.before = {}]
    /\ UNCHANGED exceptRegistry

\* _run._emit on the worker thread: a done event with the cancelled flag sets
\* the status "cancelled" while the worker has not returned yet
EmitCancelled ==
    /\ \E j \in registry.jobs :
           /\ ~j.terminal
           /\ registry' =
                  [registry EXCEPT
                     !.jobs = (@ \ {j}) \cup {[j EXCEPT !.terminal = TRUE]},
                     !.op = "", !.before = {}]
    /\ UNCHANGED exceptRegistry

\* time passes
Tick ==
    /\ registry.now < MaxTime
    /\ registry' = [registry EXCEPT !.now = @ + 1, !.op = "", !.before = {}]
    /\ UNCHANGED exceptRegistry

\* the bodies of POST /api/jobs: a parent relation or none (0), the level,
\* the selected ids, positive or not
CreateJobRequests ==
    [parent_relation_id : {0, 7}, admin_level : {"2", "4"},
     selected_relation_ids :
         UNION {[1..n -> 0..1] : n \in 0..(MAX_SELECTED_IDS + 1)}]

\* the checks of api_create_job that raise HTTPException(400)
Rejects(body) ==
    LET is_world == body.parent_relation_id = 0
        selected == SelectSeq(body.selected_relation_ids, LAMBDA x : x > 0)
    IN  \/ is_world /\ body.admin_level # "2"
        \/ selected = <<>>
        \/ Len(selected) > MAX_SELECTED_IDS

\* the mutation of ApiCreateJob: the job is created before the body is checked
ApiCreateJobChecksLate ==
    /\ registry.created < MaxJobs
    /\ \E body \in CreateJobRequests :
           registry' =
               [registry EXCEPT
                  !.jobs = EvictFinishedJobs(registry.jobs, registry.now)
                           \cup {[id |-> registry.created + 1, terminal |-> FALSE,
                                  created |-> registry.now, finished |-> 0]},
                  !.created = @ + 1,
                  !.op = IF Rejects(body) THEN "400" ELSE "create_job",
                  !.before = registry.jobs]
    /\ UNCHANGED exceptRegistry

\* how api_create_job goes on a body: 400, or _format_adm_name, which asks
\* the catalog about a parent relation, then create_job
Handling(body) ==
    IF Rejects(body) THEN "400"
    ELSE IF body.parent_relation_id # 0 THEN "fetch_relation_details, create_job"
    ELSE "create_job"

\* POST /api/jobs, over all bodies; a failing catalog lookup ends in 500
ApiCreateJob ==
    \E handling \in {Handling(body) : body \in CreateJobRequests} :
        \/ /\ handling = "400"
           /\ registry' = [registry EXCEPT !.op = "400", !.before = {}]
           /\ UNCHANGED exceptRegistry
        \/ /\ handling = "fetch_relation_details, create_job"
           /\ registry' = [registry EXCEPT !.op = "", !.before = {}]
           /\ UNCHANGED exceptRegistry
        \/ /\ handling # "400"
           /\ CreateJob

NextRegistry == ApiCreateJob \/ RunEnds \/ EmitCancelled \/ Tick

SpecRegistry == InitFile /\ [][NextRegistry]_vars

(***************************************************************************)
(* A preview request: api_catalog_preview calls preview_features on a      *)
(* thread.  A feature is named by its relation id; an Overpass query       *)
(* either returns the elements of all the relations it names or raises     *)
(* OverpassError (_fetch_elements with its "out body;" fallback is one     *)
(* fetch).  History: pv.fetched, pv.single_ok, pv.single_failed (the ids a *)
(* fetch returned, a single-id fetch returned or failed for), pv.builds    *)
(* (the ids whose geometry builds), pv.fixes (the fix_antimeridian values  *)
(* build_relation_geometry ran with).                                      *)
(***************************************************************************)
\* the set of the entries of a sequence
Range(s) == {s[i] : i \in 1..Len(s)}

\* list(dict.fromkeys(s)): the first occurrence of each entry, in order
RECURSIVE FromKeys(_)
FromKeys(s) ==
    IF s = <<>> THEN <<>>
    ELSE LET head == FromKeys(SubSeq(s, 1, Len(s) - 1))
         IN  IF s[Len(s)] \in Range(head) THEN head ELSE Append(head, s[Len(s)])

\* the keyword parameters of preview_features (relation_ids is positional)
PreviewParams == {"adm_name", "admin_level", "overpass_url", "timeout_sec"}

\* the keyword arguments api_catalog_preview passes
PreviewKwargs == {"adm_name", "admin_level", "fix_antimeridian", "overpass_url"}

\* preview_features up to the first fetch: the ids, the cache hits in order
PreviewEnter(relation_ids, fix, cached) ==
    LET ids == FromKeys(SelectSeq(relation_ids, LAMBDA x : x > 0))
        missing_ids == SelectSeq(ids, LAMBDA x : x \notin cached)
    IN  [IdlePreview EXCEPT
           !.pc = IF missing_ids = <<>> THEN "returned" ELSE "fetch",
           !.fix = fix,
           !.ids = ids,
           !.missing_ids = missing_ids,
           !.feats = SelectSeq(ids, LAMBDA x : x \in cached)]

\* POST /api/catalog/preview: the call binds or raises TypeError, which the
\* handler does not catch
ApiCatalogPreview ==
    /\ pv.pc = "idle"
    /\ \E relation_ids \in UNION {[1..n -> 0..PreviewIds] : n \in 0..MaxRequest},
          fix \in BOOLEAN, cached \in SUBSET (1..PreviewIds) :
           pv' = IF PreviewKwargs \subseteq PreviewParams
                 THEN PreviewEnter(SelectSeq(relation_ids, LAMBDA x : x > 0),
                                   fix, cached)
                 ELSE [IdlePreview EXCEPT !.pc = "raised", !.exc = "TypeError",
                                          !.fix = fix]
    /\ UNCHANGED exceptPreview

\* preview_features called with the keywords it has
DirectPreview ==
    /\ pv.pc = "idle"
    /\ \E relation_ids \in UNION {[1..n -> 0..PreviewIds] : n \in 0..MaxRequest},
          fix \in BOOLEAN, cached \in SUBSET (1..PreviewIds) :
           pv' = PreviewEnter(relation_ids, fix, cached)
    /\ UNCHANGED exceptPreview

\* chunk = missing_ids[i : i + chunk_size]
Chunk(p) ==
    SubSeq(p.missing_ids, p.i + 1,
           IF p.i + PREVIEW_CHUNK_SIZE < Len(p.missing_ids)
           THEN p.i + PREVIEW_CHUNK_SIZE ELSE Len(p.missing_ids))

\* the mutation of Subchunks: only the first half is retried
SubchunksFirstHalf(chunk) ==
    LET half == IF Len(chunk) \div 2 > 1 THEN Len(chunk) \div 2 ELSE 1
    IN  <<SubSeq(chunk, 1, half)>>

\* half = max(1, len(chunk) // 2); [chunk[:half], chunk[half:]] or [chunk]
Subchunks(chunk) ==
    LET half == IF Len(chunk) \div 2 > 1 THEN Len(chunk) \div 2 ELSE 1
    IN  IF Len(chunk) > 1
        THEN <<SubSeq(chunk, 1, half), SubSeq(chunk, half + 1, Len(chunk))>>
        ELSE <<chunk>>

\* elements = _fetch_elements(chunk), or the except clause
PreviewFetchChunk ==
    /\ pv.pc = "fetch"
    /\ \/ pv' = [pv EXCEPT !.pc = "build",
                           !.elements = Range(Chunk(pv)),
                           !.fetched = @ \cup Range(Chunk(pv))]
       \/ pv' = [pv EXCEPT !.pc = "half", !.elements = {}, !.sub = 1]
    /\ UNCHANGED exceptPreview

\* for sub in subchunks: elements.extend(_fetch_elements(sub)), or go on id
\* by id
PreviewFetchHalf ==
    /\ pv.pc = "half"
    /\ IF pv.sub > Len(Subchunks(Chunk(pv)))
       THEN pv' = [pv EXCEPT !.pc = "build", !.sub = 0]
       ELSE \E sub \in {Subchunks(Chunk(pv))[pv.sub]} :
                \/ /\ sub = <<>>
                   /\ pv' = [pv EXCEPT !.sub = @ + 1]
                \/ /\ sub # <<>>
                   /\ \/ pv' = [pv EXCEPT !.sub = @ + 1,
                                          !.elements = @ \cup Range(sub),
                                          !.fetched = @ \cup Range(sub)]
                      \/ pv' = [pv EXCEPT !.pc = "single", !.k = 1]
    /\ UNCHANGED exceptPreview

\* for rid in sub: elements.extend(_fetch_elements([rid])), or continue
PreviewFetchSingle ==
    /\ pv.pc = "single"
    /\ \E sub \in {Subchunks(Chunk(pv))[pv.sub]} :
           IF pv.k > Len(sub)
           THEN pv' = [pv EXCEPT !.pc = "half", !.sub = @ + 1, !.k = 0]
           ELSE \/ pv' = [pv EXCEPT !.k = @ + 1,
                                    !.elements = @ \cup {sub[pv.k]},
                                    !.fetched = @ \cup {sub[pv.k]},
                                    !.single_ok = @ \cup {sub[pv.k]}]
                \/ pv' = [pv EXCEPT !.k = @ + 1,
                                    !.single_failed = @ \cup {sub[pv.k]}]
    /\ UNCHANGED exceptPreview

\* for rid in chunk: build_relation_geometry(elements, int(rid)) with the
\* default fix_antimeridian, append the feature, or continue on an exception
\* (the relation is not among the elements, the geometry does not build);
\* then the next chunk, or return
PreviewBuild ==
    /\ pv.pc = "build"
    /\ \E builds \in SUBSET Range(Chunk(pv)) :
           pv' = [pv EXCEPT
                    !.feats = @ \o SelectSeq(Chunk(pv), LAMBDA rid :
                                        rid \in pv.elements /\ rid \in builds),
                    !.builds = @ \cup builds,
                    !.fixes = @ \cup {TRUE},
                    !.elements = {},
                    !.i = @ + PREVIEW_CHUNK_SIZE,
                    !.pc = IF pv.i + PREVIEW_CHUNK_SIZE < Len(pv.missing_ids)
                           THEN "fetch" ELSE "returned"]
    /\ UNCHANGED exceptPreview

NextPreview ==
    \/ ApiCatalogPreview
    \/ DirectPreview
    \/ PreviewFetchChunk
    \/ PreviewFetchHalf
    \/ PreviewFetchSingle
    \/ PreviewBuild

SpecPreview == InitFile /\ [][NextPreview]_vars

(***************************************************************************)
(* The cached reads of the catalog.  A behaviour follows one function with *)
(* one set of parameters (cat.fn, cat.arg: a parent relation for           *)
(* list_relation_ids, admin_level "2" for search_admin_areas), hence one   *)
(* cache file "own", and the file of the country items, which search reads *)
(* through list_countries_items_fast.  A cache file is the time it was     *)
(* written at, 0 when there is none (time.time() is positive); what a call *)
(* returns is named by the time it was obtained at.  post_overpass answers *)
(* a query with a payload that has an elements list, with another JSON     *)
(* object, or fails.  cat.last is the last call: the age of its cache      *)
(* entry when it was called (-1: none), its outcome, the queries it made.  *)
(***************************************************************************)
CatalogReaders ==
    {"list_relation_ids", "list_countries_items_fast", "list_parent_items_fast",
     "search_admin_areas"}

\* the answers of post_overpass to the alternatives of one call
OverpassAnswers == [1..3 -> {"fail", "elements", "other"}]

\* the mutation of IsFresh: an entry exactly as old as the TTL is not fresh
IsFreshBelowTtl(ts, now, max_age_sec) ==
    ts # 0 /\ ~(now - ts >= max_age_sec)

\* _load_*_cache(path, max_age_sec=TTL) is not None
IsFresh(ts, now, max_age_sec) ==
    ts # 0 /\ ~(now - ts > max_age_sec)

\* the first alternative among n that does not fail, 0 when all fail
FirstAnswered(answers, n) ==
    IF \A i \in 1..n : answers[i] = "fail" THEN 0
    ELSE CHOOSE i \in 1..n :
             answers[i] # "fail" /\ \A j \in 1..(i - 1) : answers[j] = "fail"

\* a cached read of the file f with n query alternatives: the fresh entry, or
\* the first answer, saved when it has elements, or the stale entry (where the
\* function keeps one) or OverpassError
CachedRead(file, now, f, max_age_sec, n, answers, keeps_stale) ==
    LET k == FirstAnswered(answers, n)
    IN  IF IsFresh(file[f], now, max_age_sec)
        THEN [file |-> file, outcome |-> "fresh", queries |-> 0,
              failed |-> FALSE, result |-> file[f]]
        ELSE IF k = 0
        THEN [file |-> file,
              outcome |-> IF keeps_stale /\ file[f] # 0
                          THEN "stale" ELSE "OverpassError",
              queries |-> n, failed |-> TRUE,
              result |-> IF keeps_stale THEN file[f] ELSE 0]
        ELSE IF answers[k] = "elements"
        THEN [file |-> [file EXCEPT ![f] = now], outcome |-> "new",
              queries |-> k, failed |-> FALSE, result |-> now]
        ELSE [file |-> file, outcome |-> "empty", queries |-> k,
              failed |-> FALSE, result |-> 0]

\* the catalog after a call of fn on the file f that went as r
AfterRead(fn, f, r) ==
    [cat EXCEPT
       !.file = r.file,
       !.last = [fn |-> fn,
                 age |-> IF cat.file[f] = 0 THEN -1 ELSE cat.now - cat.file[f],
                 outcome |-> r.outcome, queries |-> r.queries,
                 failed |-> r.failed, cached |-> cat.file[f],
                 result |-> r.result]]

\* one query; the stale items on OverpassError
ListCountriesItemsFast ==
    /\ \E answers \in OverpassAnswers :
           cat' = AfterRead("list_countries_items_fast", "items_world",
                      CachedRead(cat.file, cat.now, "items_world",
                                 ITEMS_CACHE_TTL_SEC, 1, answers, TRUE))
    /\ UNCHANGED exceptCatalog

\* three queries in order; the stale items when all of them fail
ListParentItemsFast ==
    /\ cat.fn = "list_parent_items_fast"
    /\ \E answers \in OverpassAnswers :
           cat' = AfterRead(cat.fn, "own",
                      CachedRead(cat.file, cat.now, "own",
                                 ITEMS_CACHE_TTL_SEC, 3, answers, TRUE))
    /\ UNCHANGED exceptCatalog

\* with a parent: q_area, then q_members; without: one query; the stale ids
\* when they fail
ListRelationIds ==
    /\ cat.fn = "list_relation_ids"
    /\ \E answers \in OverpassAnswers :
           cat' = AfterRead(cat.fn, "own",
                      CachedRead(cat.file, cat.now, "own", IDS_CACHE_TTL_SEC,
                                 IF cat.arg THEN 2 ELSE 1, answers, TRUE))
    /\ UNCHANGED exceptCatalog

\* admin_level "2": a local search in list_countries_items_fast(), saved;
\* otherwise q1, then q2, and no stale copy is loaded
SearchAdminAreas ==
    /\ cat.fn = "search_admin_areas"
    /\ \E answers \in OverpassAnswers :
       \E items \in {CachedRead(cat.file, cat.now, "items_world",
                                ITEMS_CACHE_TTL_SEC, 1, answers, TRUE)} :
           cat' = AfterRead(cat.fn, "own",
                      IF IsFresh(cat.file["own"], cat.now, SEARCH_CACHE_TTL_SEC)
                         \/ ~cat.arg
                      THEN CachedRead(cat.file, cat.now, "own",
                                      SEARCH_CACHE_TTL_SEC, 2, answers, FALSE)
                      ELSE IF items.outcome = "OverpassError"
                      THEN [items EXCEPT !.result = 0]
                      ELSE [items EXCEPT
                              !.file = [items.file EXCEPT !["own"] = cat.now],
                              !.outcome = "new",
                              !.result = cat.now])
    /\ UNCHANGED exceptCatalog

\* time passes
CatalogTick ==
    /\ cat.now < CatalogMaxTime
    /\ cat' = [cat EXCEPT !.now = @ + 1, !.last = NoRead]
    /\ UNCHANGED exceptCatalog

NextCatalog ==
    \/ ListCountriesItemsFast
    \/ ListParentItemsFast
    \/ ListRelationIds
    \/ SearchAdminAreas
    \/ CatalogTick

\* the function followed and its parameters are chosen at the start
InitCatalog ==
    /\ JobAtRest
    /\ StoreAtRest
    /\ CacheAtRest
    /\ FileAtRest
    /\ RegistryAtRest
    /\ pv = IdlePreview
    /\ ovp = IdleOverpass
    /\ sse = IdleSse
    /\ land = LandAtRest
    /\ FnAtRest
    /\ \E fn \in CatalogReaders \ {"list_countries_items_fast"}, arg \in BOOLEAN :
           cat = [fn |-> fn, arg |-> arg, now |-> 1,
                  file |-> [f \in {"own", "items_world"} |-> 0], last |-> NoRead]

SpecCatalog == InitCatalog /\ [][NextCatalog]_vars

(***************************************************************************)
(* post_overpass.  A URL is a host, the segments of its path and whether   *)
(* it ends with a slash.  An endpoint answers a request with HTTP 200 and  *)
(* a JSON object, or the request fails in one of four ways; the payload of *)
(* an endpoint is named by the endpoint.  History: ovp.contacted, the      *)
(* endpoints requested in order, and ovp.answers, what each answered.      *)
(***************************************************************************)
\* the URLs a caller or the settings may give
OverpassUrls ==
    [host : {"a", "b"}, path : {<<"api">>, <<"api", "interpreter">>},
     slash : BOOLEAN]

\* what a request may end with: the first is the success
RequestOutcomes ==
    {"200 object", "Overpass HTTP 504", "Overpass invalid JSON",
     "Overpass response is not a JSON object", "ConnectionError"}

\* _normalize_overpass_endpoint: no trailing slash, /api becomes
\* /api/interpreter
NormalizeOverpassEndpoint(url) ==
    IF url = NoUrl THEN NoUrl
    ELSE [host |-> url.host,
          path |-> IF url.path[Len(url.path)] = "api"
                   THEN Append(url.path, "interpreter") ELSE url.path,
          slash |-> FALSE]

\* the mutation of Endpoints: the configured default is tried first
EndpointsDefaultFirst(preferred_url, overpass_url) ==
    LET urls == <<NormalizeOverpassEndpoint(overpass_url)>>
                \o (IF preferred_url # NoUrl
                    THEN <<NormalizeOverpassEndpoint(preferred_url)>> ELSE <<>>)
    IN  FromKeys(SelectSeq(urls, LAMBDA u : u # NoUrl))

\* urls: the preferred one if given, the configured one, without the empty
\* ones and without duplicates
Endpoints(preferred_url, overpass_url) ==
    LET urls == (IF preferred_url # NoUrl
                 THEN <<NormalizeOverpassEndpoint(preferred_url)>> ELSE <<>>)
                \o <<NormalizeOverpassEndpoint(overpass_url)>>
    IN  FromKeys(SelectSeq(urls, LAMBDA u : u # NoUrl))

\* post_overpass(query, preferred_url=...) up to the loop
PostOverpass ==
    /\ ovp.pc = "idle"
    /\ \E preferred_url \in OverpassUrls \cup {NoUrl}, overpass_url \in OverpassUrls :
           ovp' = [IdleOverpass EXCEPT
                     !.pc = "loop",
                     !.preferred_url = preferred_url,
                     !.overpass_url = overpass_url,
                     !.urls = Endpoints(preferred_url, overpass_url)]
    /\ UNCHANGED exceptOverpass

\* one turn of for url in urls: the request returns the result or its
\* failure becomes last_error; after the loop, raise OverpassError
OverpassLoop ==
    /\ ovp.pc = "loop"
    /\ IF Len(ovp.contacted) = Len(ovp.urls)
       THEN ovp' = [ovp EXCEPT !.pc = "raised",
                               !.exc = <<"Overpass failed", ovp.last_error>>]
       ELSE \E url \in {ovp.urls[Len(ovp.contacted) + 1]},
               answer \in RequestOutcomes :
                ovp' = IF answer = "200 object"
                       THEN [ovp EXCEPT !.pc = "returned",
                                        !.contacted = Append(@, url),
                                        !.answers = Append(@, answer),
                                        !.payload = url,
                                        !.used_url = url]
                       ELSE [ovp EXCEPT !.contacted = Append(@, url),
                                        !.answers = Append(@, answer),
                                        !.last_error = answer]
    /\ UNCHANGED exceptOverpass

NextOverpass == PostOverpass \/ OverpassLoop

SpecOverpass == InitFile /\ [][NextOverpass]_vars

(***************************************************************************)
(* A job under any sequence of emits.  The Downloader's thread emits, the  *)
(* stream's generator runs on the event loop; each runs the Job's methods  *)
(* statement by statement (CallStep) and the two interleave.  The n-th     *)
(* emit carries n as its data, so that an event names its place in the     *)
(* emission order.  History: sse.emitted, the type of each event emitted,  *)
(* in order; sse.sent, the non-coalesced events the stream yielded, in     *)
(* order.                                                                  *)
(***************************************************************************)
\* a type that is not coalesced and one that is
SseEventTypes == {"log", "overall_progress"}

\* the thread enters job.emit(type, data)
SseEmit ==
    /\ sse.worker.pc = "idle"
    /\ Len(sse.emitted) < MaxEmits
    /\ \E type \in SseEventTypes :
           sse' = [sse EXCEPT
                     !.worker = EmitCall(JobEvent(type, Len(sse.emitted) + 1)),
                     !.emitted = Append(@, type)]
    /\ UNCHANGED exceptSse

\* the thread runs one statement of Job.emit; an exception ends the thread
SseThreadStep ==
    /\ InCall(sse.worker)
    /\ LET r == CallStep(sse.job, sse.worker)
       IN  sse' = [sse EXCEPT
                     !.job = r.job,
                     !.worker = IF InCall(r.call) \/ r.call.pc = "raised"
                                THEN r.call
                                ELSE NoCall]
    /\ UNCHANGED exceptSse

\* top of the stream's loop: flush_coalesced_events is entered
SseIter ==
    /\ sse.loop.pc = "idle"
    /\ sse.stream = "top"
    /\ sse' = [sse EXCEPT !.loop = FlushCall, !.then = "get"]
    /\ UNCHANGED exceptSse

\* queue.get() returns an event: on_event_delivered is entered
SseGet ==
    /\ sse.loop.pc = "idle"
    /\ sse.stream = "get"
    /\ sse.job.queue # <<>>
    /\ sse' = [sse EXCEPT !.job.queue = Tail(@),
                          !.loop = DeliveredCall(Head(sse.job.queue)),
                          !.then = "yield",
                          !.got = Head(sse.job.queue)]
    /\ UNCHANGED exceptSse

\* queue.get() times out: flush_coalesced_events is entered, then ping
SseTimeout ==
    /\ sse.loop.pc = "idle"
    /\ sse.stream = "get"
    /\ sse.job.queue = <<>>
    /\ sse' = [sse EXCEPT !.loop = FlushCall, !.then = "top"]
    /\ UNCHANGED exceptSse

\* the event loop runs one statement of the call the generator is inside;
\* when on_event_delivered returns, the event is yielded; an exception of
\* the call ends the generator
SseLoopStep ==
    /\ InCall(sse.loop)
    /\ LET r == CallStep(sse.job, sse.loop)
       IN  IF InCall(r.call)
           THEN sse' = [sse EXCEPT !.job = r.job, !.loop = r.call]
           ELSE sse' = [sse EXCEPT
                          !.job = r.job,
                          !.loop = NoCall,
                          !.then = "",
                          !.got = NoEvent,
                          !.stream = CASE r.call.pc = "raised" -> "broken"
                                       [] sse.then = "get"     -> "get"
                                       [] OTHER                -> "top",
                          !.sent = IF /\ r.call.pc # "raised"
                                      /\ sse.then = "yield"
                                      /\ sse.got.type \notin COALESCE_EVENT_TYPES
                                   THEN Append(@, sse.got.data)
                                   ELSE @,
                          !.snapshot = IF /\ r.call.pc # "raised"
                                          /\ sse.then = "yield"
                                          /\ sse.got.type \in COALESCE_EVENT_TYPES
                                       THEN sse.got.data
                                       ELSE @]
    /\ UNCHANGED exceptSse

NextSse ==
    \/ SseEmit
    \/ SseThreadStep
    \/ SseIter
    \/ SseGet
    \/ SseTimeout
    \/ SseLoopStep

SpecSse == InitFile /\ [][NextSse]_vars

(***************************************************************************)
(* _get_land_geometry_store, statement by statement, on the threads of     *)
(* LandThreads.  A GeoDataFrame is named by the read that made it: the     *)
(* n-th read of the shapefile makes the object n.  History: land.reads,    *)
(* the reads of the shapefile; land.got, the objects the calls returned.   *)
(***************************************************************************)
\* if _land_geometry_store is not None
LandCheck(t) ==
    /\ land.thr[t].pc = "idle"
    /\ land.thr[t].calls < MaxLandCalls
    /\ land' = [land EXCEPT
                  !.thr[t].pc = IF land.store # 0 THEN "return" ELSE "read"]
    /\ UNCHANGED exceptLand

\* gpd.read_file(shp_path)[["geometry"]]; an empty frame raises
\* LandPolygonsError
LandRead(t) ==
    /\ land.thr[t].pc = "read"
    /\ land' = IF land.empty
               THEN [land EXCEPT !.reads = @ + 1,
                                 !.thr[t].pc = "idle",
                                 !.thr[t].calls = @ + 1]
               ELSE [land EXCEPT !.reads = @ + 1,
                                 !.thr[t].land = land.reads + 1,
                                 !.thr[t].pc = "assign"]
    /\ UNCHANGED exceptLand

\* _land_geometry_store = land
LandAssign(t) ==
    /\ land.thr[t].pc = "assign"
    /\ land' = [land EXCEPT !.store = land.thr[t].land, !.thr[t].pc = "return"]
    /\ UNCHANGED exceptLand

\* return _land_geometry_store
LandReturn(t) ==
    /\ land.thr[t].pc = "return"
    /\ land' = [land EXCEPT !.got = @ \cup {land.store},
                            !.thr[t].pc = "idle",
                            !.thr[t].land = 0,
                            !.thr[t].calls = @ + 1]
    /\ UNCHANGED exceptLand

NextLand ==
    \E t \in LandThreads :
        \/ LandCheck(t)
        \/ LandRead(t)
        \/ LandAssign(t)
        \/ LandReturn(t)

\* the shapefile holds polygons or none
InitLand ==
    /\ JobAtRest
    /\ StoreAtRest
    /\ CacheAtRest
    /\ FileAtRest
    /\ RegistryAtRest
    /\ pv = IdlePreview
    /\ CatalogAtRest
    /\ ovp = IdleOverpass
    /\ sse = IdleSse
    /\ FnAtRest
    /\ \E empty \in BOOLEAN : land = [LandAtRest EXCEPT !.empty = empty]

SpecLand == InitLand /\ [][NextLand]_vars

(***************************************************************************)
(* The geometry builder.  A way is the sequence of the longitudes of its   *)
(* coordinates, in whole degrees; the latitudes pass through every step    *)
(* unchanged and are left out.  The geometry shapely assembles is taken    *)
(* by its segments: those of the prepared ways, vertex by vertex.          *)
(***************************************************************************)
\* the longitudes of the coordinates of the input
Lons == {-180, -170, -10, 0, 10, 170, 180, 530}

\* the ways handed to _unwrap_way_longitudes: two or three coordinates
GeoWays == [1..2 -> Lons] \cup [1..3 -> Lons]

\* the way_coords of a relation: one way, or two ways of two coordinates
GeoRelations ==
    {<<w>> : w \in GeoWays} \cup {<<w, v>> : w, v \in [1..2 -> Lons]}

\* the longitudes of all the coordinates of way_coords
AllLons(way_coords) ==
    UNION {{way_coords[w][i] : i \in 1..Len(way_coords[w])} :
              w \in 1..Len(way_coords)}

SetMin(S) == CHOOSE x \in S : \A y \in S : x <= y

SetMax(S) == CHOOSE x \in S : \A y \in S : x >= y

\* _is_antimeridian_candidate: min_lon starts at 180, max_lon at -180
IsAntimeridianCandidate(way_coords) ==
    LET lons    == AllLons(way_coords)
        min_lon == SetMin(lons \cup {180})
        max_lon == SetMax(lons \cup {-180})
    IN  /\ way_coords # <<>>
        /\ lons # {}
        /\ \E lon \in lons : lon < -150
        /\ \E lon \in lons : lon > 150
        /\ max_lon - min_lon > 300

\* while (cur_lon - prev_lon) > 180.0: cur_lon -= 360.0
RECURSIVE WhileAbove(_, _)
WhileAbove(cur_lon, prev_lon) ==
    IF cur_lon - prev_lon > 180 THEN WhileAbove(cur_lon - 360, prev_lon) ELSE cur_lon

\* while (cur_lon - prev_lon) < -180.0: cur_lon += 360.0
RECURSIVE WhileBelow(_, _)
WhileBelow(cur_lon, prev_lon) ==
    IF cur_lon - prev_lon < -180 THEN WhileBelow(cur_lon + 360, prev_lon) ELSE cur_lon

\* the loop of _unwrap_way_longitudes over coords[1:]
RECURSIVE UnwrapLoop(_, _, _)
UnwrapLoop(out, prev_lon, rest) ==
    IF rest = <<>>
    THEN out
    ELSE LET cur_lon == WhileBelow(WhileAbove(Head(rest), prev_lon), prev_lon)
         IN  UnwrapLoop(Append(out, cur_lon), cur_lon, Tail(rest))

\* _unwrap_way_longitudes
UnwrapWayLongitudes(coords) ==
    IF Len(coords) < 2
    THEN coords
    ELSE UnwrapLoop(<<coords[1]>>, coords[1], Tail(coords))

\* the lambda of _shift_geometry_to_360
ShiftTo360(x) == (x + 360) % 360

\* _shift_geometry_to_360, way by way
ShiftGeometryTo360(geom) ==
    [w \in 1..Len(geom) |-> [i \in 1..Len(geom[w]) |-> ShiftTo360(geom[w][i])]]

\* build_relation_geometry from way_coords on: the call and what it returns
BuildRelationGeometry ==
    /\ geo.op = ""
    /\ \E way_coords \in GeoRelations, fix_antimeridian \in BOOLEAN :
           LET use_antimeridian_fix ==
                   fix_antimeridian /\ IsAntimeridianCandidate(way_coords)
               prepared_way_coords ==
                   IF use_antimeridian_fix
                   THEN [w \in 1..Len(way_coords) |->
                            UnwrapWayLongitudes(way_coords[w])]
                   ELSE way_coords
           IN  geo' = [op |-> "build_relation_geometry",
                       ways |-> way_coords,
                       fix_antimeridian |-> fix_antimeridian,
                       use_antimeridian_fix |-> use_antimeridian_fix,
                       out |-> IF use_antimeridian_fix
                               THEN ShiftGeometryTo360(prepared_way_coords)
                               ELSE prepared_way_coords]
    /\ UNCHANGED exceptGeo

\* a call of _unwrap_way_longitudes on one way
UnwrapWay ==
    /\ geo.op = ""
    /\ \E coords \in GeoWays :
           geo' = [IdleGeo EXCEPT !.op = "_unwrap_way_longitudes",
                                  !.ways = <<coords>>,
                                  !.out = <<UnwrapWayLongitudes(coords)>>]
    /\ UNCHANGED exceptGeo

NextGeometry == BuildRelationGeometry \/ UnwrapWay

SpecGeometry == InitFile /\ [][NextGeometry]_vars

(***************************************************************************)
(* The cache cascade of one relation of download_admin_boundaries: the     *)
(* exported object file, the preview cache, Overpass.  tier.tags are the   *)
(* tags of the relation at Overpass, from which the files of the caches    *)
(* were made; a cache holds no file, a file its loader accepts, or one it  *)
(* rejects.  History: tier.phases, the object_phase events emitted, in     *)
(* order; tier.queries, the calls of post_overpass; tier.written, the      *)
(* object file written.                                                    *)
(***************************************************************************)
CacheFiles == {"none", "valid", "invalid"}

\* emit object_phase
TierPhase(phase) == Append(tier.phases, phase)

\* a variant of the cascade that consults the preview cache before the
\* exported object file
TierSourcePreviewFirst ==
    /\ tier.pc = "source"
    /\ tier' =
         IF tier.cached = "valid"
         THEN [tier EXCEPT !.pc = "build_preview",
                           !.source = "preview_cache",
                           !.phases = TierPhase("use_preview_cache")]
         ELSE IF ~tier.force_refresh_osm_source /\ tier.osm_cached = "valid"
         THEN [tier EXCEPT !.pc = "done",
                           !.source = "osm_source_cache",
                           !.phases = TierPhase("use_osm_source_cache")]
         ELSE [tier EXCEPT !.pc = "fetch",
                           !.source = "overpass",
                           !.phases = TierPhase("fetch_overpass")]
    /\ UNCHANGED exceptTier

\* osm_cached = None if force_refresh_osm_source else _load_cached_osm_object;
\* else cached = get_cached_preview_feature; the phase of the tier is emitted
TierSource ==
    /\ tier.pc = "source"
    /\ tier' =
         IF ~tier.force_refresh_osm_source /\ tier.osm_cached = "valid"
         THEN [tier EXCEPT !.pc = "done",
                           !.source = "osm_source_cache",
                           !.phases = TierPhase("use_osm_source_cache")]
         ELSE IF tier.cached = "valid"
         THEN [tier EXCEPT !.pc = "build_preview",
                           !.source = "preview_cache",
                           !.phases = TierPhase("use_preview_cache")]
         ELSE [tier EXCEPT !.pc = "fetch",
                           !.source = "overpass",
                           !.phases = TierPhase("fetch_overpass")]
    /\ UNCHANGED exceptTier

\* preview tier: tags = _tags_from_preview_properties(props), emit
\* build_geometry, shape(geometry) (or it raises)
TierBuildPreview ==
    /\ tier.pc = "build_preview"
    /\ \E pc \in {"write", "fail"} :
           tier' = [tier EXCEPT !.pc = pc,
                                !.write_tags = TagsFromProperties(tier.tags),
                                !.phases = TierPhase("build_geometry")]
    /\ UNCHANGED exceptTier

\* Overpass tier: post_overpass with the query, on OverpassError with its
\* fallback; both fail, or the payload has no element list, or the tags of
\* the relation element are taken, build_geometry is emitted and
\* build_relation_geometry returns (or raises)
TierFetch ==
    /\ tier.pc = "fetch"
    /\ \E queries \in 1..2 :
           \/ tier' = [tier EXCEPT !.pc = "fail", !.queries = queries]
           \/ \E pc \in {"write", "fail"} :
                  tier' = [tier EXCEPT !.pc = pc,
                                       !.queries = queries,
                                       !.write_tags = tier.tags,
                                       !.phases = TierPhase("build_geometry")]
    /\ UNCHANGED exceptTier

\* emit write_osm_source, write_object_geojson (or it raises)
TierWrite ==
    /\ tier.pc = "write"
    /\ \/ tier' = [tier EXCEPT
                     !.pc = "done",
                     !.phases = TierPhase("write_osm_source"),
                     !.written = [name |-> ObjectFilename(tier.rid, tier.write_tags),
                                  tags |-> tier.write_tags]]
       \/ tier' = [tier EXCEPT !.pc = "fail",
                               !.phases = TierPhase("write_osm_source")]
    /\ UNCHANGED exceptTier

NextTier == TierSource \/ TierBuildPreview \/ TierFetch \/ TierWrite

\* the relation, its tags, the flag and what the two caches hold are chosen
\* at the start
InitTier ==
    /\ JobAtRest
    /\ StoreAtRest
    /\ CacheAtRest
    /\ FileAtRest
    /\ SvcAtRest
    /\ geo = IdleGeo
    /\ tile = IdleTile
    /\ scope = IdleScope
    /\ \E rid \in Rids, tags \in TagSets, force \in BOOLEAN,
          osm_cached \in CacheFiles, cached \in CacheFiles :
           tier = [IdleTier EXCEPT !.rid = rid,
                                   !.tags = tags,
                                   !.force_refresh_osm_source = force,
                                   !.osm_cached = osm_cached,
                                   !.cached = cached]

SpecTier == InitTier /\ [][NextTier]_vars

(***************************************************************************)
(* The tile keys of the land union cache.  Degrees are counted in          *)
(* thousandths: a bbox is <<minx, miny, maxx, maxy>>, a pad of 1.004       *)
(* degrees is 1004.  A union is named by the rectangle it was computed     *)
(* for.  History: tile.requests, for each call of load_land_union_for_bbox *)
(* its bbox, its pad, its key, the rectangle of the union returned and the *)
(* hit flag.                                                               *)
(***************************************************************************)
\* float(_BBOX_TILE_DEG), in thousandths
TileSize == BBOX_TILE_DEG * 1000

Floor(x, d) == x \div d

Ceil(x, d) == -((-x) \div d)

\* int(round(bbox_pad_deg * 100)), halves to the even neighbour
RoundPad(pad) ==
    LET q == pad \div 10
        r == pad % 10
    IN  IF r < 5 \/ (r = 5 /\ q % 2 = 0) THEN q ELSE q + 1

\* the bbox widened by the pad on each side
Padded(bbox, pad) == <<bbox[1] - pad, bbox[2] - pad, bbox[3] + pad, bbox[4] + pad>>

\* a variant of the key that snaps the upper edges down like the lower ones
BboxCacheKeyFloors(bbox, pad) ==
    LET padded == Padded(bbox, pad)
    IN  <<Floor(padded[1], TileSize), Floor(padded[2], TileSize),
          Floor(padded[3], TileSize), Floor(padded[4], TileSize), RoundPad(pad)>>

\* _bbox_cache_key
BboxCacheKey(bbox, pad) ==
    LET padded == Padded(bbox, pad)
    IN  <<Floor(padded[1], TileSize), Floor(padded[2], TileSize),
          Ceil(padded[3], TileSize), Ceil(padded[4], TileSize), RoundPad(pad)>>

\* query_bbox of load_land_union_for_bbox
QueryBbox(key) ==
    <<key[1] * TileSize, key[2] * TileSize, key[3] * TileSize, key[4] * TileSize>>

\* the bboxes of the objects clipped and the pads of the requests
Bboxes ==
    {<<minx, miny, maxx, maxy>> : minx \in {-1, 0, 3996, 4000}, miny \in {0, 2000},
                                  maxx \in {-1, 0, 3996, 4000}, maxy \in {0, 2000}}

TileBboxes == {bbox \in Bboxes : bbox[1] <= bbox[3] /\ bbox[2] <= bbox[4]}

TilePads == {1000, 1004, 1006}

\* load_land_union_for_bbox(bbox, bbox_pad_deg=pad): the union cached under
\* the key is returned, or the union of the land in query_bbox is computed,
\* stored under the key and returned
LoadLandUnion ==
    /\ Len(tile.requests) < MaxTileCalls
    /\ \E bbox \in TileBboxes, pad \in TilePads :
           LET key    == BboxCacheKey(bbox, pad)
               cached == {e \in tile.cache : e.key = key}
               hit    == cached # {}
               entry  == IF hit THEN CHOOSE e \in cached : TRUE
                         ELSE [key |-> key, union |-> QueryBbox(key)]
           IN  tile' = [cache    |-> tile.cache \cup {entry},
                        requests |-> Append(tile.requests,
                                            [bbox |-> bbox, pad |-> pad, key |-> key,
                                             union |-> entry.union, hit |-> hit])]
    /\ UNCHANGED exceptTile

NextTile == LoadLandUnion

InitTile ==
    /\ JobAtRest
    /\ StoreAtRest
    /\ CacheAtRest
    /\ FileAtRest
    /\ SvcAtRest
    /\ FnAtRest

SpecTile == InitTile /\ [][NextTile]_vars

(***************************************************************************)
(* Two jobs on one scope.  Each runs download_admin_boundaries on a thread *)
(* of its own (asyncio.to_thread); of a run only what touches the          *)
(* manifest is kept.  The manifest is the set of the relation ids it has   *)
(* an entry for.  History: scope.job[j].ok, the relations the job          *)
(* reported with object_done ok.                                           *)
(***************************************************************************)
\* the relation ids a job may select
ScopeRids == 1..ScopeRelations

\* create_job and _run up to the call: manifest = load_manifest(...),
\* objects = manifest["objects"]
ScopeLoad(j) ==
    /\ scope.job[j].status = "none"
    /\ \E ids \in SUBSET ScopeRids \ {{}} :
           scope' = [scope EXCEPT
                       !.job[j] = [status |-> "running", pc |-> "loop",
                                   relation_ids |-> ids, idx |-> 1,
                                   objects |-> scope.manifest, ok |-> {}]]
    /\ UNCHANGED exceptScope

\* one relation of the loop, if selected: objects[str(rid)] = ... and
\* object_done ok, or an exception and object_done not ok
ScopeObject(j) ==
    /\ scope.job[j].pc = "loop"
    /\ scope.job[j].idx <= ScopeRelations
    /\ LET rid == scope.job[j].idx
       IN  \/ /\ rid \in scope.job[j].relation_ids
              /\ scope' = [scope EXCEPT !.job[j].idx = @ + 1,
                                        !.job[j].objects = @ \cup {rid},
                                        !.job[j].ok = @ \cup {rid}]
           \/ scope' = [scope EXCEPT !.job[j].idx = @ + 1]
    /\ UNCHANGED exceptScope

\* after the loop: manifest["objects"] = objects, save_manifest, the
\* combined files, done, and _run sets the status done; or one of them
\* raises and the status is error
ScopeSave(j) ==
    /\ scope.job[j].pc = "loop"
    /\ scope.job[j].idx > ScopeRelations
    /\ \/ scope' = [scope EXCEPT !.manifest = scope.job[j].objects,
                                 !.job[j].pc = "returned",
                                 !.job[j].status = "done"]
       \/ scope' = [scope EXCEPT !.manifest = scope.job[j].objects,
                                 !.job[j].pc = "raised",
                                 !.job[j].status = "error"]
       \/ scope' = [scope EXCEPT !.job[j].pc = "raised",
                                 !.job[j].status = "error"]
    /\ UNCHANGED exceptScope

NextScope == \E j \in ScopeJobs : ScopeLoad(j) \/ ScopeObject(j) \/ ScopeSave(j)

InitScope ==
    /\ JobAtRest
    /\ StoreAtRest
    /\ CacheAtRest
    /\ FileAtRest
    /\ SvcAtRest
    /\ FnAtRest

SpecScope == InitScope /\ [][NextScope]_vars

(***************************************************************************)
(* Claims                                                                  *)
(***************************************************************************)
\* the number of events of type t in the queue q
QueuedOfType(q, t) == Cardinality({i \in 1..Len(q) : q[i].type = t})

\* C1: in every reachable state, for each coalesced event type the job's
\* queue holds at most one event of that type, whatever the interleaving of
\* the worker thread's emit, cancel's emit, the stream's delivery, the
\* flushes and the overflow drops.
C1_AtMostOneQueuedPerCoalescedType ==
    \A t \in COALESCE_EVENT_TYPES : QueuedOfType(job.queue, t) <= 1

\* C2: when the stream has terminated (it sent job_finished), no snapshot of
\* a coalesced type is left unsent: none waits in pending_coalesced and none
\* sits in the queue behind job_finished.
C2_NoSnapshotLeftBehind ==
    stream["s1"].pc = "closed" =>
        /\ job.pending_coalesced = <<>>
        /\ \A t \in COALESCE_EVENT_TYPES : QueuedOfType(job.queue, t) = 0

\* C3: a job with a cancel request served before its Downloader call had
\* returned, and whose Downloader call returned, has emitted
\* done{cancelled:true} and ends with status cancelled.
C3_CancelBeforeReturnEndsCancelled ==
    run_pc = "finished" /\ obs.cancel_in_run /\ dl.pc = "returned" =>
        obs.done_cancelled /\ job.status = "cancelled"

\* C4: once a chunk of the land-polygon response has seen should_cancel, no
\* further url is streamed, and the job ends with done{cancelled:true} and
\* status cancelled.
C4_CancelStopsLandDownload ==
    dl.last_error = "Cancelled" =>
        /\ dl.pc # "lp_chunk"
        /\ run_pc = "finished" => obs.done_cancelled /\ job.status = "cancelled"

\* C5: the call the worker makes binds (every keyword it passes is a
\* parameter of download_admin_boundaries), and a finished job that was not
\* asked to cancel does not end with status error for it.
C5_WorkerCallBinds ==
    /\ dl.exc # "TypeError"
    /\ run_pc = "finished" /\ ~job.cancelled => job.status # "error"

\* the status _run leaves: error if the Downloader raised, cancelled if the
\* emit wrapper saw done{cancelled:true}, done otherwise
OutcomeStatus ==
    IF dl.pc = "raised" THEN "error"
    ELSE IF obs.done_cancelled THEN "cancelled"
    ELSE "done"

C6_Safety ==
    /\ obs.finished <= 1
    /\ obs.after = 0
    /\ obs.finished = 1 <=> run_pc = "finished"
    /\ run_pc = "finished" =>
           /\ obs.last = JobEvent("job_finished",
                                  [job_id |-> "job", status |-> job.status])
           /\ job.status = OutcomeStatus
           /\ job.status \in TERMINAL_STATUSES

\* C6: the worker eventually emits job_finished, emits it once and emits
\* nothing after it; its status field is job.status, which is error if the
\* Downloader raised, cancelled if done{cancelled:true} was emitted, and done
\* otherwise.
C6_OneJobFinishedWithTerminalStatus ==
    []C6_Safety /\ <>(obs.finished = 1)

C6_Witness ==
    /\ run_pc = "finished"
    /\ obs.finished = 1
    /\ obs.done_cancelled
    /\ job.status = "cancelled"

\* the events a call of _enqueue_with_backpressure may be given
SomeEvents ==
    {JobEvent("log", [message |-> "Cancel requested"]),
     JobEvent("overall_progress", [done |-> 0, total |-> 1, ok |-> 0, failed |-> 0]),
     JobEvent("job_finished", [job_id |-> "job", status |-> "done"])}

\* C7: the queue never holds more than SSE_QUEUE_MAX events, and in every
\* reachable state of the job a call of _enqueue_with_backpressure keeps it
\* so: on a full queue it removes exactly the oldest event, adds one to
\* dropped_events and leaves the new event at the tail; otherwise it appends
\* the new event and drops nothing.
C7_QueueBoundedDropsOldest ==
    /\ Len(job.queue) <= SSE_QUEUE_MAX
    /\ \A ev \in SomeEvents :
           LET r == EnqueueWithBackpressure(job, ev)
           IN  /\ r.ok
               /\ Len(r.job.queue) <= SSE_QUEUE_MAX
               /\ IF QueueFull(job.queue)
                  THEN /\ r.job.queue = Append(Tail(job.queue), ev)
                       /\ r.job.dropped_events = job.dropped_events + 1
                  ELSE /\ r.job.queue = Append(job.queue, ev)
                       /\ r.job.dropped_events = job.dropped_events

C7_Witness ==
    /\ QueueFull(job.queue)
    /\ job.dropped_events > 0
    /\ job.queue[Len(job.queue)].type = "job_finished"

\* C8: while a stream is open on a job whose worker has finished, job_finished
\* is still there for it to send: it is in the queue.
C8_OpenStreamCanSendJobFinished ==
    \A s \in Streams :
        run_pc = "finished" /\ stream[s].pc \in {"top", "waiting"} =>
            QueuedOfType(job.queue, "job_finished") > 0

SameRelation(e, f) == e.data.relation_id = f.data.relation_id

\* f is emitted by the worker right after e
C9_Succession(e, f) ==
    /\ f.type = "object_started" =>
           /\ e.type = "overall_progress"
           /\ e.data.done = f.data.index - 1
           /\ f.data.relation_id = f.data.index
    /\ f.type = "object_phase" =>
           /\ e.type \in {"object_started", "object_phase"}
           /\ SameRelation(e, f)
    /\ f.type = "object_stats" =>
           \/ e.type \in {"object_phase", "object_clipped_ready"} /\ SameRelation(e, f)
           \/ e.type = "clip_cache_stats"
    /\ f.type = "object_done" =>
           IF f.data.ok
           THEN e.type = "object_stats" /\ SameRelation(e, f)
           ELSE \/ e.type = "object_phase" /\ SameRelation(e, f)
                \/ e.type = "clip_cache_stats"
    /\ f.type = "overall_progress" /\ f.data.done > 0 =>
           e.type = "object_done" /\ e.data.relation_id = f.data.done
    /\ e.type = "object_started" => f.type = "object_phase" /\ SameRelation(e, f)
    /\ e.type = "object_stats" => f.type = "object_done" /\ f.data.ok /\ SameRelation(e, f)
    /\ e.type = "object_done" =>
           f.type = "overall_progress" /\ f.data.done = e.data.relation_id

\* C9: in the order of emission, object_started of relation i follows
\* overall_progress with done i-1; its object_phase events follow it;
\* object_stats comes after them and only before object_done ok; object_done
\* comes once, after object_stats on success and without it on failure, and
\* is followed at once by overall_progress with done i, before anything of
\* relation i+1.
C9_PerRelationEmissionOrder ==
    [][obs'.last # obs.last => C9_Succession(obs.last, obs'.last)]_vars

C9_Witness ==
    /\ obs.last.type = "overall_progress"
    /\ obs.last.data.done = 2
    /\ obs.last.data.ok = 1
    /\ obs.last.data.failed = 1

\* C10: when a job has finished with a status other than cancelled, the last
\* overall_progress emitted, if one was emitted, has done = total
\* (Job.progress keeps the payload of the last overall_progress emitted).
C10_FinalProgressIsTotal ==
    run_pc = "finished" /\ job.status # "cancelled" /\ job.progress # NoData =>
        job.progress.done = job.progress.total /\ job.progress.total = total

C10_Witness ==
    /\ run_pc = "finished"
    /\ job.status = "done"
    /\ job.cancelled
    /\ job.progress # NoData
    /\ job.progress.done = 2

\* C11: when a job that is not cancelled has finished, its recorded progress
\* satisfies ok + failed = total.
C11_FinishedProgressAddsUp ==
    run_pc = "finished" /\ job.status # "cancelled" =>
        /\ job.progress # NoData
        /\ job.progress.ok + job.progress.failed = job.progress.total

\* the payload of one overall_progress event
C12_Payload(p) ==
    /\ p.ok + p.failed = p.done
    /\ p.done <= p.total
    /\ p.total = total

\* the payload p follows the payload last recorded (Job.progress keeps the
\* payload of the last overall_progress emitted, {} before the first)
C12_Follows(last, p) ==
    IF last = NoData
    THEN p.done = 0
    ELSE /\ p.done = last.done + 1
         /\ p.ok >= last.ok
         /\ p.failed >= last.failed
         /\ p.total = last.total

\* C12: across one run of the Downloader, each overall_progress emitted has
\* ok + failed = done <= total, and against the one emitted before it the
\* same total, done greater by exactly one, ok and failed not smaller.
C12_ProgressIsMonotone ==
    [][obs'.last # obs.last /\ obs'.last.type = "overall_progress" =>
           /\ C12_Payload(obs'.last.data)
           /\ C12_Follows(job.progress, obs'.last.data)]_vars

C12_Witness ==
    /\ obs.last.type = "overall_progress"
    /\ obs.last.data.done = 2
    /\ obs.last.data.ok = 2
    /\ job.progress = obs.last.data

\* C13: an exception raised while a relation is fetched, built, clipped or
\* written is counted in failed, reported by object_done with ok false and
\* the error, and followed by overall_progress and the next relation; the
\* job never ends with the error of a relation.
C13_RelationFailureIsContained ==
    /\ [][dl.pc = "fail" /\ dl' # dl =>
              /\ dl.exc \in RelationFailures
              /\ dl'.pc = "progress"
              /\ dl'.failed = dl.failed + 1
              /\ dl'.ok = dl.ok
              /\ dl'.idx = dl.idx
              /\ obs'.last = JobEvent("object_done",
                                      [relation_id |-> dl.idx, ok |-> FALSE,
                                       error |-> dl.exc])]_vars
    /\ [][dl.pc = "progress" /\ dl' # dl =>
              /\ dl'.pc = "loop"
              /\ dl'.idx = dl.idx + 1
              /\ dl'.failed = dl.failed]_vars
    /\ [](/\ dl.pc = "raised" => dl.exc \notin RelationFailures
          /\ job.error \notin RelationFailures
          /\ obs.error \notin RelationFailures)

\* every relation of the job has failed and the job has ended done
C13_Witness ==
    /\ run_pc = "finished"
    /\ job.status = "done"
    /\ total = 2
    /\ dl.failed = 2

\* str(exc) of the exception download_land_polygons raises after its last url
LandDownloadFailures ==
    {"Failed to download land polygons: " \o e :
        e \in {"None", "HTTPError", "ConnectionError", "Cancelled"}}

\* C14: when clip_land is set and the land-polygon download has failed on
\* every url, no object_started and no done event is emitted, and the job
\* ends with status error after an error event that carries the exception
\* and before job_finished.
C14_LandDownloadFailureEndsJob ==
    dl.pc = "raised" /\ dl.exc \in LandDownloadFailures =>
        /\ clip_land
        /\ ~obs.started
        /\ ~obs.done
        /\ IF run_pc = "finished"
           THEN /\ job.status = "error"
                /\ job.error = dl.exc
                /\ obs.error = dl.exc
                /\ obs.last = JobEvent("job_finished",
                                       [job_id |-> "job", status |-> "error"])
                /\ obs.finished = 1
           ELSE obs.error = "" /\ obs.finished = 0

C14_Witness ==
    /\ run_pc = "finished"
    /\ dl.pc = "raised"
    /\ dl.exc = "Failed to download land polygons: HTTPError"
    /\ obs.error = dl.exc
    /\ obs.last.type = "job_finished"

\* the files of relation rid in a directory of object files
C15_Files(dir, rid) == {f \in dir : MatchesSuffix(f.name, rid)}

\* C15: after a run has returned, every relation it reported with
\* object_done ok has exactly one file matching *__r<rid>.geojson under
\* osm_source/objects, whatever runs and scoped previews came before.
C15_OneOsmFilePerReportedRelation ==
    run.pc = "returned" =>
        \A rid \in run.reported : Cardinality(C15_Files(disk.osm, rid)) = 1

\* C16: between runs, a relation whose latest clip was computed has a file
\* under land_only/objects iff that clip was non-empty.
C16_LandFileIffLatestClipNonEmpty ==
    run.pc \in {"idle", "returned"} =>
        \A rid \in Rids :
            latest[rid] \in {"empty", "nonempty"} =>
                (C15_Files(disk.land, rid) # {} <=> latest[rid] = "nonempty")

\* C17: after a run has returned, with done{stats} or done{cancelled}, the
\* manifest on disk has an entry for every relation the run reported with
\* object_done ok.
C17_ManifestHasReportedRelations ==
    run.pc = "returned" => run.reported \subseteq disk.manifest

\* C18: after every completed call of load_land_union_for_bbox the cache
\* holds at most LAND_UNION_CACHE_MAX entries, and a lookup of a key that
\* is one of the next LAND_UNION_CACHE_MAX distinct keys looked up after it
\* was inserted or last hit (fewer than LAND_UNION_CACHE_MAX other keys came
\* between) is a hit.
C18_BoundedLru ==
    /\ Len(cache) <= LAND_UNION_CACHE_MAX
    /\ since.looked \in 0..(LAND_UNION_CACHE_MAX - 1) => since.hit

\* the key followed is hit after as many other keys as the claim allows, in
\* a full cache
C18_Witness ==
    /\ since.looked = LAND_UNION_CACHE_MAX - 1
    /\ since.hit
    /\ Len(cache) = LAND_UNION_CACHE_MAX

\* the threads between two cache operations of one call: after the lookup
\* and before move_to_end, or after the insert and before the eviction
C19_Touching == {t \in CacheThreads : thr[t].pc \in {"move", "len", "pop"}}

\* C19: with concurrent calls of load_land_union_for_bbox the cache touches
\* of two calls never overlap, no call fails because another thread has
\* evicted its key, and the cache holds at most LAND_UNION_CACHE_MAX entries
\* whenever no call is in progress.
C19_CacheTouchesExclusive ==
    /\ Cardinality(C19_Touching) <= 1
    /\ \A t \in CacheThreads : thr[t].exc # "KeyError"
    /\ (\A t \in CacheThreads : thr[t].pc = "idle") =>
           Len(cache) <= LAND_UNION_CACHE_MAX

\* the texts some writer wrote whole, the one on disk at the start included
C20_Texts == {Text(w) : w \in FileWriters \cup {"w0"}}

\* C20: a reader of a file written with the atomic write sees the whole
\* text of one write, never a partial or mixed one and never no file, also
\* when two threads of the process write the path; and no writer fails
\* because of the other.
C20_ReadersSeeWholeTexts ==
    /\ seen \in C20_Texts
    /\ \A w \in FileWriters : wr[w].pc # "raised"


\* C21: a JSON file is replaced atomically: when a write of it has failed, the
\* target holds a complete text (the previous one), never a part of one.
C21_FailedWriteKeepsTarget ==
    \A w \in FileWriters :
        wr[w].pc = "raised" => fs.path \in {Text(v) : v \in {"w0"} \cup FileWriters}

\* the finished jobs the cap chooses among: those of the registry before the
\* call that were not past the grace period
C22_Candidates ==
    {j \in registry.before :
        j.terminal /\ ~(j.finished # 0
                        /\ registry.now - j.finished > FINISHED_JOB_GRACE_SEC)}

\* C22: right after create_job returns, the registry holds no finished job
\* past the grace period and at most MAX_FINISHED_JOBS finished jobs; the cap
\* removes only as many as needed, and those with the smallest finished_at
\* (created_at when unset); every finished job within grace and among the
\* MAX_FINISHED_JOBS most recent is still there, as is every unfinished job.
C22_EvictionOnCreate ==
    registry.op = "create_job" =>
        LET Age(j) == IF j.finished # 0 THEN j.finished ELSE j.created
            finished == {j \in registry.jobs : j.terminal}
            removed == C22_Candidates \ registry.jobs
        IN  /\ \A j \in finished :
                   j.finished # 0 =>
                       registry.now - j.finished <= FINISHED_JOB_GRACE_SEC
            /\ Cardinality(finished) <= MAX_FINISHED_JOBS
            /\ removed # {} =>
                   Cardinality(C22_Candidates) - Cardinality(removed)
                       = MAX_FINISHED_JOBS
            /\ \A r \in removed : \A k \in finished : Age(r) <= Age(k)
            /\ \A j \in C22_Candidates :
                   Cardinality({k \in C22_Candidates \ {j} : Age(k) >= Age(j)})
                       < MAX_FINISHED_JOBS
                   => j \in registry.jobs
            /\ \A j \in registry.before : ~j.terminal => j \in registry.jobs

\* create_job has just dropped a job past the grace period and a job over the
\* cap, the latter finished before one created earlier than it
C22_Witness ==
    /\ registry.op = "create_job"
    /\ (registry.before \ registry.jobs) \ C22_Candidates # {}
    /\ \E r \in C22_Candidates \ registry.jobs :
           \E k \in registry.jobs : k.terminal /\ k.created < r.created


\* C23: the fix_antimeridian flag of a preview request reaches
\* build_relation_geometry for every relation built, and the call that
\* carries the flag is accepted by preview_features.
C23_FlagReachesBuilder ==
    /\ pv.exc # "TypeError"
    /\ pv.fixes \subseteq {pv.fix}

\* C27: preview_features does not fail on a failing chunk; when it returns,
\* every missing id whose single-id fetch succeeded and whose geometry builds
\* has its feature, a missing id without feature has a geometry that does not
\* build or a single-id fetch that failed, a missing id no fetch returned
\* has none, and no id has two features.
C27_FailingChunksAreRetried ==
    /\ pv.exc # "OverpassError"
    /\ pv.pc = "returned" =>
           /\ (pv.single_ok \cap pv.builds) \subseteq Range(pv.feats)
           /\ \A rid \in Range(pv.missing_ids) \ Range(pv.feats) :
                  rid \notin pv.builds \/ rid \in pv.single_failed
           /\ \A rid \in Range(pv.missing_ids) \ pv.fetched :
                  rid \notin Range(pv.feats)
           /\ Range(pv.feats) \subseteq Range(pv.ids)
           /\ Cardinality(Range(pv.feats)) = Len(pv.feats)

\* a chunk and its first half failed, one id of the half was then fetched
\* alone and built, another id failed alone and was skipped
C27_Witness ==
    /\ pv.pc = "returned"
    /\ pv.single_ok \cap pv.builds # {}
    /\ pv.single_failed \cap pv.builds # {}
    /\ Len(pv.feats) > 1


\* the TTL of the cache the last call read
C25_Ttl ==
    CASE cat.last.fn = "search_admin_areas" -> SEARCH_CACHE_TTL_SEC
      [] cat.last.fn = "list_relation_ids"  -> IDS_CACHE_TTL_SEC
      [] OTHER                              -> ITEMS_CACHE_TTL_SEC

\* C24: a cached catalog read returns the stale copy when no fresh entry
\* exists, every query alternative fails and a stale entry exists; it raises
\* OverpassError only when there is no stale entry.
C24_StaleFallback ==
    cat.last.fn # "" =>
        /\ cat.last.outcome = "OverpassError" => cat.last.age = -1
        /\ cat.last.failed /\ cat.last.age > C25_Ttl =>
               cat.last.outcome = "stale" /\ cat.last.result = cat.last.cached

C26_Candidates ==
    LET preferred == NormalizeOverpassEndpoint(ovp.preferred_url)
        default == NormalizeOverpassEndpoint(ovp.overpass_url)
    IN  IF preferred = NoUrl \/ preferred = default
        THEN <<default>> ELSE <<preferred, default>>

\* C26: post_overpass requests the candidate endpoints in order; it returns
\* the payload of the first that answers 200 with a JSON object, used_url
\* being that endpoint, and requests none after it; it raises OverpassError
\* with the last failure's message only when every candidate has failed.
C26_FirstAnsweringEndpointWins ==
    /\ ovp.pc # "idle" =>
           /\ Len(ovp.contacted) <= Len(C26_Candidates)
           /\ ovp.contacted = SubSeq(C26_Candidates, 1, Len(ovp.contacted))
           /\ \A i \in 1..(Len(ovp.answers) - 1) : ovp.answers[i] # "200 object"
    /\ ovp.pc = "returned" =>
           /\ ovp.answers[Len(ovp.answers)] = "200 object"
           /\ ovp.used_url = ovp.contacted[Len(ovp.contacted)]
           /\ ovp.payload = ovp.used_url
    /\ ovp.pc = "raised" =>
           /\ ovp.contacted = C26_Candidates
           /\ \A i \in 1..Len(ovp.answers) : ovp.answers[i] # "200 object"
           /\ ovp.exc = <<"Overpass failed", ovp.answers[Len(ovp.answers)]>>

\* the caller's endpoint failed and the configured one, a different one,
\* answered
C26_Witness ==
    /\ ovp.pc = "returned"
    /\ Len(ovp.contacted) = 2
    /\ ovp.used_url = NormalizeOverpassEndpoint(ovp.overpass_url)
    /\ ovp.used_url # ovp.overpass_url


\* C28: a POST /api/jobs that is answered 400 leaves the registry as it
\* was: no job record is added or removed and no job (hence no worker) is
\* created.
C28_RejectedRequestChangesNothing ==
    [][registry'.op = "400" =>
           /\ registry'.jobs = registry.jobs
           /\ registry'.created = registry.created]_vars

\* a request was rejected while the registry held a running and a finished
\* job
C28_Witness ==
    /\ registry.op = "400"
    /\ \E j \in registry.jobs : j.terminal
    /\ \E j \in registry.jobs : ~j.terminal


\* the events of the emission order that are not coalesced, by their place,
\* whose emit call has ended
SseNonCoalesced ==
    {n \in 1..Len(sse.emitted) :
        /\ sse.emitted[n] \notin COALESCE_EVENT_TYPES
        /\ InCall(sse.worker) => n < Len(sse.emitted)}

\* the non-coalesced events still in the queue, by their place
SseQueued ==
    {sse.job.queue[i].data : i \in {k \in 1..Len(sse.job.queue) :
                                      sse.job.queue[k].type \notin COALESCE_EVENT_TYPES}}

\* the non-coalesced events yielded or about to be, by their place
SseSent ==
    {sse.sent[i] : i \in 1..Len(sse.sent)}
        \cup (IF sse.got.type \in COALESCE_EVENT_TYPES \cup {NoEvent.type}
              THEN {}
              ELSE {sse.got.data})

\* the events taken from the full queue that dropped_events is about to count
SseCounting ==
    Cardinality({c \in {"worker", "loop"} : sse[c].pc = "count_dropped"})

\* C29: the non-coalesced events yielded by the stream of a job are yielded
\* in the order of their emission, each at most once (the yielded events
\* form a subsequence of the emission order), and the non-coalesced events
\* whose emit has ended and that were neither yielded nor are still queued
\* are no more than dropped_events counts (an event taken from the full
\* queue is counted by the next statement).
C29_DeliveredInEmissionOrder ==
    /\ \A i, k \in 1..Len(sse.sent) : i < k => sse.sent[i] < sse.sent[k]
    /\ Cardinality(SseNonCoalesced \ (SseSent \cup SseQueued))
           <= sse.job.dropped_events + SseCounting

\* C30: when the shapefile holds polygons, it is read at most once, and all
\* the calls of _get_land_geometry_store that returned returned the same
\* object, whatever the interleaving of the threads inside the getter.
C30_StoreLoadedOnce ==
    ~land.empty =>
        /\ land.reads <= 1
        /\ Cardinality(land.got) <= 1

\* the pairs of consecutive vertices of the geometry g
GeoSegments(g) ==
    UNION {{<<g[w][i], g[w][i + 1]>> : i \in 1..(Len(g[w]) - 1)} : w \in 1..Len(g)}

\* C31: when build_relation_geometry applied the antimeridian fix, every
\* vertex longitude of the geometry it returns lies in [0, 360) and no
\* segment of the geometry has its ends on the two sides of lon = 180.
C31_FixedGeometryStaysOffTheAntimeridian ==
    (geo.op = "build_relation_geometry" /\ geo.use_antimeridian_fix) =>
        /\ \A lon \in AllLons(geo.out) : 0 <= lon /\ lon < 360
        /\ \A seg \in GeoSegments(geo.out) :
               ~(seg[1] < 180 /\ 180 < seg[2]) /\ ~(seg[2] < 180 /\ 180 < seg[1])

\* C35: _unwrap_way_longitudes maps every longitude after the first to the
\* value congruent to its input modulo 360 that lies in
\* (prev - 180, prev + 180], prev being the previous output longitude.
C35_UnwrappedIntoHalfOpenInterval ==
    geo.op = "_unwrap_way_longitudes" =>
        \A i \in 2..Len(geo.out[1]) :
            LET prev == geo.out[1][i - 1]
                cur  == geo.out[1][i]
            IN  /\ (cur - geo.ways[1][i]) % 360 = 0
                /\ prev - 180 < cur
                /\ cur <= prev + 180

\* the phases of the three tiers
TierPhases == {"use_osm_source_cache", "use_preview_cache", "fetch_overpass"}

\* the number of events of tier.phases whose phase is in the set S
PhaseCount(S) == Cardinality({i \in 1..Len(tier.phases) : tier.phases[i] \in S})

\* C32: for a relation, at most one of the phases use_osm_source_cache,
\* use_preview_cache, fetch_overpass is emitted, and exactly one once a
\* source was chosen; the source is the exported object file when it is
\* valid and force_refresh_osm_source is not set, else the preview cache when
\* it holds a valid feature, else Overpass; post_overpass is called only
\* when both caches miss; write_osm_source is never emitted when the source
\* is the exported object file, and is emitted for every relation whose
\* geometry was obtained from another source.
C32_OneSourceInFixedPriority ==
    LET osm_hit     == ~tier.force_refresh_osm_source /\ tier.osm_cached = "valid"
        preview_hit == tier.cached = "valid"
        expected    == IF osm_hit THEN "osm_source_cache"
                       ELSE IF preview_hit THEN "preview_cache"
                       ELSE "overpass"
        phase       == [osm_source_cache |-> "use_osm_source_cache",
                        preview_cache    |-> "use_preview_cache",
                        overpass         |-> "fetch_overpass"]
    IN  /\ PhaseCount(TierPhases) <= 1
        /\ tier.pc # "source" =>
               /\ tier.source = expected
               /\ tier.phases[1] = phase[expected]
               /\ PhaseCount(TierPhases) = 1
        /\ tier.queries > 0 => ~osm_hit /\ ~preview_hit
        /\ PhaseCount({"write_osm_source"}) > 0 => tier.source # "osm_source_cache"
        /\ tier.pc \in {"write", "done"} =>
               (PhaseCount({"write_osm_source"}) = 1
                    <=> (tier.pc = "done" /\ tier.source # "osm_source_cache"))

\* the preview cache is the source although an exported object file lies in
\* the scope and is skipped by force_refresh_osm_source; write_osm_source was
\* emitted
C32_Witness ==
    /\ tier.pc = "done"
    /\ tier.force_refresh_osm_source
    /\ tier.osm_cached = "valid"
    /\ tier.source = "preview_cache"
    /\ tier.phases = <<"use_preview_cache", "build_geometry", "write_osm_source">>

\* C32 as stated: once the relation has left the cascade, write_osm_source
\* was emitted if and only if the source was not the exported object file.
C32_WriteIffNotExported ==
    tier.pc \in {"done", "fail"} =>
        (PhaseCount({"write_osm_source"}) = 1 <=> tier.source # "osm_source_cache")

\* C40: the object file written for a relation from the preview cache has
\* the name and the properties of the file written for it from Overpass:
\* those made from the tags of the relation.
C40_SameFileFromEitherTier ==
    (tier.pc = "done" /\ tier.source \in {"preview_cache", "overpass"}) =>
        tier.written = [name |-> ObjectFilename(tier.rid, tier.tags),
                        tags |-> tier.tags]

\* the files of the directory dir that the step removes, none of their name
\* being left
Unlinked(dir) == {f \in disk[dir] : \A g \in disk'[dir] : g.name # f.name}

\* C37: a step that writes the object file of a relation (a run in its
\* cascade or its clip, or a scoped preview) removes, from either directory
\* of the scope, only object files of that relation.
C37_UnlinksOnlyOwnFiles ==
    [][\A dir \in {"osm", "land"} : \A f \in Unlinked(dir) :
           IF run.pc = "idle"
           THEN \E g \in disk'[dir] \ disk[dir] : g.name.rid = f.name.rid
           ELSE f.name.rid = run.idx]_vars

\* C39: a job whose status is not terminal (queued or running) is in the
\* registry after every step, so that get(job_id) returns it: create_job
\* registers the job it creates and no eviction removes a job before its
\* status is terminal.
C39_UnfinishedJobsStayRegistered ==
    [][/\ \A j \in registry.jobs :
              ~j.terminal => \E k \in registry.jobs' : k.id = j.id
       /\ registry'.created > registry.created =>
              \E k \in registry.jobs' : k.id = registry'.created /\ ~k.terminal]_vars

\* create_job has just evicted a finished job although a job created before
\* it, still queued or running, was in the registry, and that job is kept
C39_Witness ==
    /\ registry.op = "create_job"
    /\ \E old \in registry.before, gone \in registry.before :
           /\ ~old.terminal
           /\ old \in registry.jobs
           /\ old.created < gone.created
           /\ gone.terminal
           /\ \A k \in registry.jobs : k.id # gone.id

\* C33: once a cancel request has set cancelled, the Downloader emits
\* object_started and object_done only for the relation whose loop iteration
\* was under way when the request was served (none if it was served between
\* two iterations, before the loop or after it): no later relation is
\* started, and at most that one object_done follows the request.
C33_CancelStopsAtTheRelationInProgress ==
    [][(job.cancelled /\ obs'.last # obs.last
          /\ obs'.last.type \in {"object_started", "object_done"})
           => /\ obs.cancel_at > 0
              /\ obs'.last.data.relation_id = obs.cancel_at
              /\ dl.idx = obs.cancel_at]_vars

\* a cancel request was served while relation 1 of two was in progress;
\* relation 1 was completed and reported, and the run has ended with
\* done{cancelled} without starting relation 2
C33_Witness ==
    /\ total = 2
    /\ obs.cancel_at = 1
    /\ obs.done_cancelled
    /\ dl.pc = "returned"
    /\ dl.idx = 2
    /\ dl.ok + dl.failed = 1

\* C34: the snapshots of a coalesced type are yielded by the stream in the
\* order of their emission: the snapshot yielded was emitted after the one
\* yielded before it (the n-th emit carries n, as does done of an
\* overall_progress of a run whose relations are all reported).
C34_SnapshotsInEmissionOrder ==
    [][sse'.snapshot >= sse.snapshot]_vars

\* the rectangle outer contains the rectangle inner
Contains(outer, inner) ==
    /\ outer[1] <= inner[1]
    /\ outer[2] <= inner[2]
    /\ inner[3] <= outer[3]
    /\ inner[4] <= outer[4]

\* C36: the rectangle rebuilt from the tile key of a request contains its
\* padded bbox, and so does the rectangle of the union the request is
\* answered with, also when the union was cached by another request with
\* the same key; two requests whose pads differ in round(pad * 100) have
\* different keys and share no entry.
C36_TileCoversPaddedBbox ==
    \A i \in 1..Len(tile.requests) :
        LET r == tile.requests[i]
        IN  /\ Contains(QueryBbox(r.key), Padded(r.bbox, r.pad))
            /\ Contains(r.union, Padded(r.bbox, r.pad))
            /\ \A k \in 1..Len(tile.requests) :
                   RoundPad(tile.requests[k].pad) # RoundPad(r.pad)
                       => tile.requests[k].key # r.key

\* a request was answered from the cache with the union computed for
\* another bbox with the same key
C36_Witness ==
    /\ Len(tile.requests) = 2
    /\ tile.requests[2].hit
    /\ tile.requests[1].bbox # tile.requests[2].bbox
    /\ Padded(tile.requests[2].bbox, tile.requests[2].pad)[3]
           > Padded(tile.requests[1].bbox, tile.requests[1].pad)[3]

\* C36 as stated, its last clause: two requests with different pads have
\* different keys.
C36_DifferentPadsNeverShare ==
    \A i, k \in 1..Len(tile.requests) :
        tile.requests[i].pad # tile.requests[k].pad
            => tile.requests[i].key # tile.requests[k].key

\* C38: when the two jobs of the scope have both ended with the status
\* done, the manifest has an entry for every relation either of them
\* reported with object_done ok.
C38_ManifestKeepsBothJobs ==
    (\A j \in ScopeJobs : scope.job[j].status = "done") =>
        \A j \in ScopeJobs : scope.job[j].ok \subseteq scope.manifest

====
